---- MODULE Spec2Model ----
(***************************************************************************)
(* A model of the Raft core of sumimakito/raft: the role loops of          *)
(* Server (runLoopFollower / runLoopCandidate / runLoopLeader), the RPC    *)
(* handlers AppendEntries, RequestVote and ApplyLog, Server.Apply,         *)
(* appendLogs and commitAndApply.                                          *)
(*                                                                         *)
(* The main loop of a server is one thread; it blocks in the select of     *)
(* the loop of its role and services one event per iteration.  Every       *)
(* inbound RPC is taken from the transport queue by that select and then   *)
(* handled in a goroutine of its own (go s.handleRPC(rpc)), so handlers    *)
(* run concurrently with each other and with the main loop.  A handler is  *)
(* modelled in two steps: the reads and early returns that open it, and    *)
(* the writes that follow.                                                 *)
(*                                                                         *)
(* The replication scheduler, the log store, the configuration store and   *)
(* the setters of the server state are not among the source files; they    *)
(* are modelled from the specification (section 4.5, 4.2, 4.3, 3).         *)
(*                                                                         *)
(* Specifications: Spec (the restored cluster: elections, commands,        *)
(* replication, commit), SpecElection (elections alone, more terms),       *)
(* SpecApply (the restored cluster with the callers of Apply),             *)
(* SpecReceiver (one inbound RPC on a follower, in any state that earlier  *)
(* terms can leave),                                                       *)
(* SpecAlone (first nodes left alone, with fairness), SpecBootstrap        *)
(* (first nodes with their callers), SpecTimer (the follower timer under   *)
(* inbound RPCs), SpecShutdown (Shutdown and a failing transport),         *)
(* SpecRPC (the response pipeline of an inbound RPC), SpecSnapshot (a      *)
(* follower that has restored a snapshot), SpecRegister (Register on a     *)
(* first node), SpecJoin (a first node that registers a second server     *)
(* and replicates to it), SpecTransport (the client table of the           *)
(* transport and its lock), SpecForward (clients that call Apply on        *)
(* servers that are not the leader), SpecRestore (snapshot restores on a   *)
(* leader), SpecServe (Serve before the main loop runs) and                *)
(* SpecRepairFair (a leader repairing the log of a follower, with          *)
(* fairness).                                                              *)
(***************************************************************************)
EXTENDS Integers, Sequences, FiniteSets, TLC

\* The servers of the cluster and the peer that stands for "no leader".
Server == {"A", "B"}
nilPeer == ""

\* Bounds of the model.
MaxTerm == 2        \* elections stop at this term (Spec)
MaxElectionTerm == 4 \* elections stop at this term (SpecElection)
MaxCommands == 2    \* client commands submitted in all
MaxHandlers == 2    \* handleRPC goroutines in progress on one server
MaxInFlight == 1    \* handleRPC goroutines in progress in the cluster (Spec)
MaxCommitCh == 1    \* commit notifications waiting in commitCh
MaxLogLen == 2      \* entries of a log drawn for SpecReceiver
FollowerTicks == 1  \* opts.followerTimeout in ticks of the clock (SpecTimer)
MaxShutdowns == 2   \* errors waiting in shutdownCh (SpecShutdown)
MaxRPCs == 2        \* InstallSnapshot and unrecognised RPCs in all (SpecRPC)
MaxLogOps == 1      \* configuration appends waiting in logOpsCh (SpecJoin)
MaxTransportOps == 3 \* calls of the transport started in all (SpecTransport)
MaxRestores == 1    \* restore tasks waiting in snapshotRestoreCh (SpecRestore)

Follower == "Follower"
Candidate == "Candidate"
Leader == "Leader"
Loops == {Follower, Candidate, Leader}

\* The goroutines that call the transport, and the transport before any call:
\* nobody holds clientsMu, every goroutine is idle.
Goroutine == {"g1", "g2"}
InitClientsMu == [readers |-> 0, writer |-> FALSE]
IdleOp == [op |-> "none", peer |-> nilPeer, pc |-> "idle", retryState |-> 0]
InitTransOps == [thr |-> [g \in Goroutine |-> IdleOp], started |-> 0]

\* Server.Endpoint(): the address the transport of the server listens on, and
\* an address that is none of them.
Endpoint(s) == IF s = "A" THEN "hostA:5000" ELSE "hostB:5000"
OtherEndpoint == "elsewhere:5000"

VARIABLES
    role,           \* serverState.stateRole
    currentTerm,    \* serverState: current term
    lastVote,       \* serverState: last vote summary (term, candidate)
    clusterLeader,  \* Server.clusterLeader, the leader pointer (a peer id)
    log,            \* the log store: a sequence of entries (index, term, body)
    commitIndex,    \* commitState: commit index
    lastApplied,    \* commitState: last applied (index, term)
    commitCh,       \* serverChannels.commitCh
    logOpsCh,       \* serverChannels.logOpsCh (append operations of Apply)
    applied,        \* the commands handed to StateMachine.Apply, in order
    conf,           \* confStore.Latest(): current and next peer sets
    loop,           \* where the main-loop thread is: "main" or the loop of a role
    panicked,       \* the process died in logger.Panicw
    handlers,       \* the handleRPC goroutines in progress on each server
    election,       \* locals of runLoopCandidate / startElection
    repl,           \* the replication scheduler of a leader loop
    everLeader,     \* history: (term, server) pairs that won an election
    votesGranted,   \* history: (voter, term, candidate) votes granted
    applyCount,     \* the number of client commands submitted so far
    calls,          \* the calls of Server.Apply and the state of their futures
    followerTimer,  \* runLoopFollower: followerTimer (period and ticks left)
    serve,          \* Serve: shutdownCh, shutdown state, serveErrCh, transport, result
    rpcs,           \* the InstallSnapshot and unrecognised RPCs taken from trans.RPC()
    snapshot,       \* snapshotRestoreCh and the meta of the snapshot last restored
    confStore,      \* confStore: log index of the latest configuration, committed configuration
    flagReselectLoop,\* Server.flagReselectLoop
    registerResult, \* what the last call of Server.Register returned
    clients,        \* GRPCTransport.clients: the ids of the connected peers
    clientsMu,      \* GRPCTransport.clientsMu: holders of the read lock, holder of the write lock
    transOps,       \* the calls of the transport in progress, one per calling goroutine
    serveFlag,      \* Server.serveFlag: 1 once Serve has been called
    listedEndpoint  \* the endpoint the latest configuration lists for the id of the server

vars == <<role, currentTerm, lastVote, clusterLeader, log, commitIndex, lastApplied,
          commitCh, logOpsCh, applied, conf, loop, panicked, handlers, election,
          repl, everLeader, votesGranted, applyCount, calls,
          followerTimer,
          serve,
          rpcs,
          snapshot,
          confStore,
          flagReselectLoop,
          registerResult,
          clients,
          clientsMu,
          transOps,
          serveFlag,
          listedEndpoint>>

\* The variables of the servers (all but those of the transport's client table).
serverVars == <<role, currentTerm, lastVote, clusterLeader, log, commitIndex, lastApplied,
          commitCh, logOpsCh, applied, conf, loop, panicked, handlers, election,
          repl, everLeader, votesGranted, applyCount, calls,
          followerTimer,
          serve,
          rpcs,
          snapshot,
          confStore,
          flagReselectLoop,
          registerResult,
          serveFlag,
          listedEndpoint>>

----------------------------------------------------------------------------
\* Helpers

Min(a, b) == IF a < b THEN a ELSE b
Max(a, b) == IF a > b THEN a ELSE b

NoReq == [kind |-> "none"]
NoResp == [kind |-> "none"]

\* serverState.lastLogIndex(): the index of the last entry of the log, 0 if none.
lastLogIndex(lg) == IF Len(lg) = 0 THEN 0 ELSE lg[Len(lg)].index

\* logStore.Entry(index): the entry with that index; callers test HasEntry first
\* (a nil result in the source).
HasEntry(lg, i) == \E k \in 1..Len(lg) : lg[k].index = i
Entry(lg, i) == lg[CHOOSE k \in 1..Len(lg) : lg[k].index = i]

\* logStore.LastTermIndex(): term and index of the last entry, (0, 0) if none.
LastTermIndex(lg) ==
    IF Len(lg) = 0 THEN [term |-> 0, index |-> 0]
    ELSE [term |-> lg[Len(lg)].term, index |-> lg[Len(lg)].index]

\* logStore.DeleteAfter(index): removes the suffix that starts at index.
DeleteAfter(lg, i) == SelectSeq(lg, LAMBDA e : e.index < i)

\* A quorum that a server cannot form with its own vote alone.
QuorumBeyondSelf(peers) == (Cardinality(peers) \div 2) + 2

\* config.Quorum(): a strict majority of a peer set.
Quorum(peers) == (Cardinality(peers) \div 2) + 1

\* configuration.Joint(): a next peer set is present.
Joint(c) == c.next # {}

\* A peer set that ignores the configuration: every server of the cluster.
PeersAll(c) == Server

\* configuration.Peers(): the union of the current and the next set.
Peers(c) == c.current \cup c.next

\* configuration.Peer(id): the peer with that id, nilPeer if there is none.
Peer(c, id) == IF id \in Peers(c) THEN id ELSE nilPeer

\* serverState.setCurrentTerm via Server.alterTerm: stores the term.
alterTerm(s, term) == [currentTerm EXCEPT ![s] = term]

\* Server.appendLogs: the entries built for the bodies, indices following the
\* last log index, every entry stamped with the server's current term.
appendLogs(lg, term, bodies) ==
    lg \o [i \in 1..Len(bodies) |->
             [index |-> lastLogIndex(lg) + i, term |-> term, body |-> bodies[i]]]

----------------------------------------------------------------------------
\* Initial state: the servers of a restored cluster after NewServer, all
\* followers in term 0 with empty logs, about to enter the main loop.

InitElection == [active |-> FALSE, req |-> NoReq, toAsk |-> {}, resCh |-> {},
                 currentVotes |-> 0, nextVotes |-> 0]

InitDriver == [nextIndex |-> 1, matchIndex |-> 0, out |-> NoReq, resp |-> NoResp,
               exited |-> FALSE]

InitRepl == [running |-> FALSE, stepdownCh |-> <<>>,
             drv |-> [p \in Server |-> InitDriver]]

InitConf == [current |-> Server, next |-> {}]

\* The configuration store of a restored cluster: the latest configuration
\* is the committed one, read from the stable store and not from a log entry.
InitConfStore == [latestIndex |-> 0, committed |-> InitConf]

\* newConfiguration: the configuration of the last CONFIGURATION body among
\* the bodies appended behind log lg, with the index of its entry; none when
\* no body is a configuration.
NoConf == [current |-> {}, next |-> {}, index |-> 0]
lastConfiguration(lg, bodies) ==
    LET cs == {i \in 1..Len(bodies) : bodies[i].type = "CONFIGURATION"} IN
    IF cs = {} THEN NoConf
    ELSE LET i == CHOOSE i \in cs : \A j \in cs : j <= i IN
         [current |-> bodies[i].data.current, next |-> bodies[i].data.next,
          index |-> lastLogIndex(lg) + i]

\* Server.alterConfiguration(c): confStore.SetLatest(c)
alterConfiguration(s, c) ==
    [conf EXCEPT ![s] = [current |-> c.current, next |-> c.next]]
SetLatest(s, c) ==
    [confStore EXCEPT ![s].latestIndex = c.index]

\* NewServer and Serve: nothing waits in shutdownCh or serveErrCh, the
\* shutdown state is unset, no terminal signal was taken, trans.Serve is
\* running and Serve() has not returned.
InitServe == [shutdownCh |-> <<>>, shutdownState |-> FALSE, serveErrCh |-> <<>>,
              terminal |-> FALSE, trans |-> "serving", returned |-> <<>>]

\* NewServer: no restore task waits and no snapshot was restored.
InitSnapshotState == [restoreCh |-> <<>>, index |-> 0, term |-> 0]

\* opts.maxTimerRandomOffsetRatio
maxTimerRandomOffsetRatio == 1

\* Server.randomTimer: the timeout plus a random offset of up to
\* maxTimerRandomOffsetRatio times the timeout.
randomTimer(timeout) == timeout..(timeout + maxTimerRandomOffsetRatio * timeout)

\* runLoopFollower, case rpc := <-s.trans.RPC(): followerTimer.Reset, whatever
\* the RPC is.  Only the follower loop holds a follower timer.
followerTimerReset(p) ==
    [followerTimer EXCEPT ![p].left = IF loop[p] = Follower THEN followerTimer[p].period
                                      ELSE @]

Init ==
    /\ role = [s \in Server |-> Follower]
    /\ currentTerm = [s \in Server |-> 0]
    /\ lastVote = [s \in Server |-> [term |-> 0, candidate |-> nilPeer]]
    /\ clusterLeader = [s \in Server |-> nilPeer]
    /\ log = [s \in Server |-> <<>>]
    /\ commitIndex = [s \in Server |-> 0]
    /\ lastApplied = [s \in Server |-> [index |-> 0, term |-> 0]]
    /\ commitCh = [s \in Server |-> <<>>]
    /\ logOpsCh = [s \in Server |-> <<>>]
    /\ applied = [s \in Server |-> <<>>]
    /\ conf = [s \in Server |-> InitConf]
    /\ loop = [s \in Server |-> "main"]
    /\ panicked = [s \in Server |-> FALSE]
    /\ handlers = [s \in Server |-> {}]
    /\ election = [s \in Server |-> InitElection]
    /\ repl = [s \in Server |-> InitRepl]
    /\ everLeader = {}
    /\ votesGranted = {}
    /\ applyCount = 0
    /\ listedEndpoint = [s \in Server |-> Endpoint(s)]
    /\ serveFlag = [s \in Server |-> 1]
    /\ transOps = InitTransOps
    /\ clientsMu = InitClientsMu
    /\ clients = {}
    /\ registerResult = [s \in Server |-> "None"]
    /\ flagReselectLoop = [s \in Server |-> FALSE]
    /\ confStore = [s \in Server |-> InitConfStore]
    /\ snapshot = [s \in Server |-> InitSnapshotState]
    /\ rpcs = {}
    /\ serve = [s \in Server |-> InitServe]
    /\ followerTimer = [s \in Server |-> [period |-> 0, left |-> 0]]
    /\ calls = {}

----------------------------------------------------------------------------
\* The end of one iteration of a role loop.  The loop is left when the event
\* returned, or when the role read at the top of the loop is no longer the
\* role of the loop; leaving runs the deferred calls (replScheduler.Stop in
\* the leader loop, voteCancel in the candidate loop).

Exits(s, r, ret) == ret \/ r # loop[s] \/ flagReselectLoop[s]

loopAfter(s, exit) == [loop EXCEPT ![s] = IF exit THEN "main" ELSE @]

replAfter(s, exit) ==
    IF exit /\ loop[s] = Leader THEN [repl EXCEPT ![s] = InitRepl] ELSE repl

electionAfter(s, exit) ==
    IF exit /\ loop[s] = Candidate THEN [election EXCEPT ![s] = InitElection]
    ELSE election

\* runMainLoop goes from one role loop to the next without waiting for
\* anything: no other thread is scheduled while a main loop is between two
\* role loops (from MaxTerm on a candidate may stay there).
Settled ==
    \A x \in Server :
        loop[x] = "main" =>
            \/ panicked[x] \/ serve[x].shutdownState
            \/ (role[x] = Candidate /\ currentTerm[x] >= MaxTerm)

\* The select of a role loop can take an event.
Selecting(s) == Settled /\ ~panicked[s] /\ loop[s] \in Loops

\* The handleRPC goroutines in progress in the cluster.
RECURSIVE InFlight(_)
InFlight(S) ==
    IF S = {} THEN 0
    ELSE LET x == CHOOSE x \in S : TRUE
         IN Cardinality(handlers[x]) + InFlight(S \ {x})

\* rpc := <-s.trans.RPC(); go s.handleRPC(rpc)
CanDispatch(p, cap) ==
    /\ Selecting(p)
    /\ Cardinality(handlers[p]) < MaxHandlers
    /\ InFlight(Server) < cap

----------------------------------------------------------------------------
\* runMainLoop: enter the loop of the current role.

runLoopFollower(s) ==
    /\ ~panicked[s] /\ loop[s] = "main" /\ role[s] = Follower
    /\ ~serve[s].shutdownState
    /\ flagReselectLoop' = [flagReselectLoop EXCEPT ![s] = FALSE]
    /\ loop' = [loop EXCEPT ![s] = Follower]
    /\ \E d \in randomTimer(followerTimer[s].period) :
          followerTimer' = [followerTimer EXCEPT ![s].left = d]
    /\ UNCHANGED <<listedEndpoint, serveFlag, transOps, clientsMu, clients, registerResult, confStore, snapshot, rpcs, serve, applyCount, calls, role, currentTerm, lastVote, clusterLeader, log, commitIndex,
                   lastApplied, commitCh, logOpsCh, applied, conf, panicked,
                   handlers, election, repl, everLeader, votesGranted>>

\* Server.startElection: the request sent to every peer but ourself.
RequestVoteRequest(s, term) ==
    [kind |-> "RV", term |-> term, candidateId |-> s,
     lastLogIndex |-> LastTermIndex(log[s]).index,
     lastLogTerm |-> LastTermIndex(log[s]).term]

\* runLoopCandidate on entry: startElection raises the term, votes for itself,
\* starts one requestVote goroutine per peer and queues its own granted response.
startElection(s, maxTerm) ==
    /\ ~panicked[s] /\ loop[s] = "main" /\ role[s] = Candidate
    /\ ~serve[s].shutdownState
    /\ flagReselectLoop' = [flagReselectLoop EXCEPT ![s] = FALSE]
    /\ currentTerm[s] < maxTerm
    /\ LET term == currentTerm[s] + 1 IN
       /\ currentTerm' = alterTerm(s, term)
       /\ lastVote' = [lastVote EXCEPT ![s] = [term |-> term, candidate |-> s]]
       /\ election' = [election EXCEPT ![s] =
              [active |-> TRUE, req |-> RequestVoteRequest(s, term),
               toAsk |-> Peers(conf[s]) \ {s},
               resCh |-> {[serverId |-> s, term |-> term, granted |-> TRUE]},
               currentVotes |-> 0, nextVotes |-> 0]]
       /\ votesGranted' = votesGranted \cup
              {[voter |-> s, term |-> term, candidate |-> s]}
    /\ loop' = [loop EXCEPT ![s] = Candidate]
    /\ UNCHANGED <<listedEndpoint, serveFlag, transOps, clientsMu, clients, registerResult, confStore, snapshot, rpcs, serve, followerTimer, applyCount, calls, role, clusterLeader, log, commitIndex, lastApplied, commitCh,
                   logOpsCh, applied, conf, panicked, handlers, repl, everLeader>>

\* runLoopLeader on entry: replScheduler.Start(stepdownCh) with a fresh
\* stepdown channel; every driver starts at nextIndex = lastLogIndex + 1.
runLoopLeader(s) ==
    /\ ~panicked[s] /\ loop[s] = "main" /\ role[s] = Leader
    /\ ~serve[s].shutdownState
    /\ flagReselectLoop' = [flagReselectLoop EXCEPT ![s] = FALSE]
    /\ repl' = [repl EXCEPT ![s] =
           [running |-> TRUE, stepdownCh |-> <<>>,
            drv |-> [p \in Server |->
                [InitDriver EXCEPT !.nextIndex = lastLogIndex(log[s]) + 1]]]]
    /\ loop' = [loop EXCEPT ![s] = Leader]
    /\ UNCHANGED <<listedEndpoint, serveFlag, transOps, clientsMu, clients, registerResult, confStore, snapshot, rpcs, serve, followerTimer, applyCount, calls, role, currentTerm, lastVote, clusterLeader, log, commitIndex,
                   lastApplied, commitCh, logOpsCh, applied, conf, panicked,
                   handlers, election, everLeader, votesGranted>>

----------------------------------------------------------------------------
\* Timers

\* runLoopFollower, case <-followerTimer.C
followerTimeout(s) ==
    /\ Selecting(s) /\ loop[s] = Follower
    /\ followerTimer[s].left = 0
    /\ role' = [role EXCEPT ![s] = Candidate]
    /\ loop' = loopAfter(s, TRUE)
    /\ UNCHANGED <<listedEndpoint, serveFlag, transOps, clientsMu, clients, registerResult, flagReselectLoop, confStore, snapshot, rpcs, serve, followerTimer, applyCount, calls, currentTerm, lastVote, clusterLeader, log, commitIndex,
                   lastApplied, commitCh, logOpsCh, applied, conf, panicked,
                   handlers, election, repl, everLeader, votesGranted>>

\* The clock of the follower timer advances by one tick.
timerTick(s) ==
    /\ Selecting(s) /\ loop[s] = Follower
    /\ followerTimer[s].left > 0
    /\ followerTimer' = [followerTimer EXCEPT ![s].left = @ - 1]
    /\ UNCHANGED <<listedEndpoint, serveFlag, transOps, clientsMu, clients, registerResult, flagReselectLoop, confStore, snapshot, rpcs, serve, applyCount, calls, role, currentTerm, lastVote, clusterLeader, log, commitIndex,
                   lastApplied, commitCh, logOpsCh, applied, conf, loop, panicked,
                   handlers, election, repl, everLeader, votesGranted>>

\* runLoopCandidate, case <-electionTimer.C
electionTimeout(s) ==
    /\ Selecting(s) /\ loop[s] = Candidate
    /\ loop' = loopAfter(s, TRUE)
    /\ election' = electionAfter(s, TRUE)
    /\ UNCHANGED <<listedEndpoint, serveFlag, transOps, clientsMu, clients, registerResult, flagReselectLoop, confStore, snapshot, rpcs, serve, followerTimer, applyCount, calls, role, currentTerm, lastVote, clusterLeader, log, commitIndex,
                   lastApplied, commitCh, logOpsCh, applied, conf, panicked,
                   handlers, repl, everLeader, votesGranted>>

----------------------------------------------------------------------------
\* RequestVote

\* A requestVote goroutine of candidate c reaches peer p: the select of p's
\* role loop takes the RPC and starts a handler goroutine for it.
SendRequestVote(c, p, cap) ==
    /\ Settled /\ ~panicked[c] /\ election[c].active /\ p \in election[c].toAsk
    /\ CanDispatch(p, cap)
    /\ LET exit == Exits(p, role[p], FALSE) IN
       /\ handlers' = [handlers EXCEPT ![p] = @ \cup
              {[kind |-> "RV", from |-> c, req |-> election[c].req,
                pc |-> "check", respTerm |-> 0, higher |-> FALSE]}]
       /\ loop' = loopAfter(p, exit)
       /\ repl' = replAfter(p, exit)
       /\ election' = [electionAfter(p, exit) EXCEPT ![c].toAsk = @ \ {p}]
    /\ followerTimer' = followerTimerReset(p)
    /\ UNCHANGED <<listedEndpoint, serveFlag, transOps, clientsMu, clients, registerResult, flagReselectLoop, confStore, snapshot, rpcs, serve, applyCount, calls, role, currentTerm, lastVote, clusterLeader, log, commitIndex,
                   lastApplied, commitCh, logOpsCh, applied, conf, panicked,
                   everLeader, votesGranted>>

\* The response of a RequestVote handler reaches the response channel of the
\* election that sent the request, unless that election was cancelled.
VoteDelivered(h, resp) ==
    IF election[h.from].active /\ election[h.from].req = h.req
    THEN [election EXCEPT ![h.from].resCh = @ \cup {resp}]
    ELSE election

\* rpcHandler.RequestVote, up to the test of request.Term > currentTerm.
RequestVoteCheck(s, h) ==
    /\ Settled /\ ~panicked[s] /\ h \in handlers[s] /\ h.kind = "RV" /\ h.pc = "check"
    /\ LET req == h.req
           resp(g) == [serverId |-> s, term |-> currentTerm[s], granted |-> g]
       IN
       IF req.term < currentTerm[s] THEN
           /\ handlers' = [handlers EXCEPT ![s] = @ \ {h}]
           /\ election' = VoteDelivered(h, resp(FALSE))
           /\ UNCHANGED votesGranted
       ELSE IF currentTerm[s] <= lastVote[s].term THEN
           LET g == (lastVote[s].candidate = req.candidateId) IN
           /\ handlers' = [handlers EXCEPT ![s] = @ \ {h}]
           /\ election' = VoteDelivered(h, resp(g))
           /\ votesGranted' = IF g
                THEN votesGranted \cup
                     {[voter |-> s, term |-> req.term, candidate |-> req.candidateId]}
                ELSE votesGranted
       ELSE
           /\ handlers' = [handlers EXCEPT ![s] = (@ \ {h}) \cup
                  {[h EXCEPT !.pc = "act", !.respTerm = currentTerm[s],
                             !.higher = (req.term > currentTerm[s])]}]
           /\ UNCHANGED <<election, votesGranted>>
    /\ UNCHANGED <<listedEndpoint, serveFlag, transOps, clientsMu, clients, registerResult, flagReselectLoop, confStore, snapshot, rpcs, serve, followerTimer, applyCount, calls, role, currentTerm, lastVote, clusterLeader, log, commitIndex,
                   lastApplied, commitCh, logOpsCh, applied, conf, loop, panicked,
                   repl, everLeader>>

\* rpcHandler.RequestVote, from the stepdown to the reply.
RequestVoteAct(s, h) ==
    /\ Settled /\ ~panicked[s] /\ h \in handlers[s] /\ h.kind = "RV" /\ h.pc = "act"
    /\ LET req == h.req
           stepdown == h.higher /\ role[s] # Follower
           term == IF h.higher THEN req.term ELSE currentTerm[s]
           respTerm == IF h.higher THEN term ELSE h.respTerm
           last == LastTermIndex(log[s])
           stale == \/ req.lastLogTerm < last.term
                    \/ req.lastLogTerm = last.term /\ req.lastLogIndex < last.index
           resp == [serverId |-> s, term |-> respTerm, granted |-> ~stale]
       IN
       /\ role' = IF stepdown THEN [role EXCEPT ![s] = Follower] ELSE role
       /\ clusterLeader' = IF stepdown THEN [clusterLeader EXCEPT ![s] = nilPeer]
                           ELSE clusterLeader
       /\ currentTerm' = IF h.higher THEN alterTerm(s, req.term) ELSE currentTerm
       /\ lastVote' = IF stale THEN lastVote
                      ELSE [lastVote EXCEPT ![s] =
                               [term |-> term, candidate |-> req.candidateId]]
       /\ votesGranted' = IF stale THEN votesGranted
                          ELSE votesGranted \cup
                               {[voter |-> s, term |-> req.term,
                                 candidate |-> req.candidateId]}
       /\ handlers' = [handlers EXCEPT ![s] = @ \ {h}]
       /\ election' = VoteDelivered(h, resp)
    /\ UNCHANGED <<listedEndpoint, serveFlag, transOps, clientsMu, clients, registerResult, flagReselectLoop, confStore, snapshot, rpcs, serve, followerTimer, applyCount, calls, log, commitIndex, lastApplied, commitCh, logOpsCh, applied, conf,
                   loop, panicked, repl, everLeader>>

\* runLoopCandidate, case response := <-voteResCh
voteResponse(s, r) ==
    /\ Selecting(s) /\ loop[s] = Candidate
    /\ election[s].active /\ r \in election[s].resCh
    /\ IF r.term > currentTerm[s] THEN
           /\ currentTerm' = alterTerm(s, r.term)
           /\ loop' = loopAfter(s, TRUE)
           /\ election' = electionAfter(s, TRUE)
           /\ UNCHANGED <<role, clusterLeader, everLeader>>
       ELSE
           LET c == conf[s]
               cv == election[s].currentVotes +
                     (IF r.serverId \in c.current THEN 1 ELSE 0)
               nv == election[s].nextVotes +
                     (IF Joint(c) /\ r.serverId \in c.next THEN 1 ELSE 0)
               won == IF ~Joint(c) THEN cv >= Quorum(c.current)
                      ELSE cv >= Quorum(c.current) /\ nv >= Quorum(c.next)
               newRole == IF won THEN Leader ELSE role[s]
               exit == Exits(s, newRole, won)
           IN
           /\ role' = [role EXCEPT ![s] = newRole]
           /\ clusterLeader' = IF won THEN [clusterLeader EXCEPT ![s] = Peer(c, s)]
                               ELSE clusterLeader
           /\ everLeader' = IF won
                THEN everLeader \cup {[term |-> currentTerm[s], server |-> s]}
                ELSE everLeader
           /\ loop' = loopAfter(s, exit)
           /\ election' =
                IF exit THEN electionAfter(s, TRUE)
                ELSE [election EXCEPT ![s].resCh = @ \ {r},
                                      ![s].currentVotes = cv,
                                      ![s].nextVotes = nv]
           /\ UNCHANGED currentTerm
    /\ UNCHANGED <<listedEndpoint, serveFlag, transOps, clientsMu, clients, registerResult, flagReselectLoop, confStore, snapshot, rpcs, serve, followerTimer, applyCount, calls, lastVote, log, commitIndex, lastApplied, commitCh, logOpsCh,
                   applied, conf, panicked, handlers, repl, votesGranted>>

----------------------------------------------------------------------------
\* Commit and apply

\* The commands among the entries lo..hi of a log, as handed to
\* stateMachine.Apply by the loop of commitAndApply.
RECURSIVE Commands(_, _, _)
Commands(lg, lo, hi) ==
    IF lo > hi THEN <<>>
    ELSE LET e == Entry(lg, lo) IN
         (IF e.body.type = "COMMAND"
          THEN <<[index |-> e.index, term |-> e.term, data |-> e.body.data]>>
          ELSE <<>>) \o Commands(lg, lo + 1, hi)

\* commitAndApply without its check of lastApplied > commitIndex: the commit
\* index follows a lower notification down.
commitAndApplyUnchecked(s, ci) ==
    LET c == Min(ci, lastLogIndex(log[s]))
        la == lastApplied[s].index
    IN
    IF la >= c
    THEN [panic |-> FALSE, commitIndex |-> c,
          lastApplied |-> lastApplied[s], applied |-> applied[s]]
    ELSE [panic |-> FALSE, commitIndex |-> c,
          lastApplied |-> [index |-> c, term |-> Entry(log[s], c).term],
          applied |-> applied[s] \o Commands(log[s], la + 1, c)]

\* commitAndApply with an apply loop that starts at lastApplied, not at
\* lastApplied + 1.
commitAndApplyFromLast(s, ci) ==
    LET c == Min(ci, lastLogIndex(log[s]))
        la == lastApplied[s].index
        same == [panic |-> FALSE, commitIndex |-> commitIndex[s],
                 lastApplied |-> lastApplied[s], applied |-> applied[s]]
    IN
    IF la = c THEN same
    ELSE IF la > c THEN [same EXCEPT !.panic = TRUE]
    ELSE [panic |-> FALSE, commitIndex |-> c,
          lastApplied |-> [index |-> c, term |-> Entry(log[s], c).term],
          applied |-> applied[s] \o Commands(log[s], Max(la, 1), c)]

\* Server.commitAndApply(commitIndex): the commit state it leaves, and whether
\* it ends in one of its two panics.
commitAndApply(s, ci) ==
    LET c == Min(ci, lastLogIndex(log[s]))
        la == lastApplied[s].index
        same == [panic |-> FALSE, commitIndex |-> commitIndex[s],
                 lastApplied |-> lastApplied[s], applied |-> applied[s]]
        gaps == {i \in (la + 1)..c : ~HasEntry(log[s], i)}
    IN
    IF la = c THEN same
    ELSE IF la > c THEN [same EXCEPT !.panic = TRUE]
    ELSE IF gaps # {}
    THEN LET gap == CHOOSE i \in gaps : \A j \in gaps : i <= j IN
         [same EXCEPT !.panic = TRUE, !.commitIndex = c,
                      !.applied = @ \o Commands(log[s], la + 1, gap - 1)]
    ELSE [panic |-> FALSE, commitIndex |-> c,
          lastApplied |-> [index |-> c, term |-> Entry(log[s], c).term],
          applied |-> applied[s] \o Commands(log[s], la + 1, c)]

\* Server.commitAndApply, the last configuration entry among the entries it
\* applies; index 0 when there is none or when commitAndApply returns or
\* panics before it gets there.
NoLog == [index |-> 0, term |-> 0, body |-> [type |-> "NONE", data |-> 0]]
lastConfigurationLog(s, ci) ==
    LET c == Min(ci, lastLogIndex(log[s]))
        la == lastApplied[s].index
        cs == {i \in (la + 1)..c :
                  HasEntry(log[s], i) /\ Entry(log[s], i).body.type = "CONFIGURATION"}
    IN IF commitAndApply(s, ci).panic \/ cs = {} THEN NoLog
       ELSE Entry(log[s], CHOOSE i \in cs : \A j \in cs : j <= i)

\* confStore.CommitTransition: the final configuration, whose current set is
\* the next set of the joint configuration and which has no next set.
CommitTransition(c) == [current |-> c.next, next |-> {}]

\* Role loops, case commitIndex := <-s.commitCh.  When the entries applied
\* hold a configuration entry, commitAndApply makes its configuration the
\* committed one; when that entry is the joint configuration the server holds
\* as its latest, CommitTransition appends the final configuration first.
commitEvent(s) ==
    /\ Selecting(s) /\ commitCh[s] # <<>>
    /\ LET res == commitAndApply(s, Head(commitCh[s]))
           e == lastConfigurationLog(s, Head(commitCh[s]))
           transition == /\ e.index > 0 /\ Joint(conf[s])
                         /\ confStore[s].latestIndex = e.index
           final == CommitTransition(conf[s])
           newLog == IF transition
                     THEN appendLogs(log[s], currentTerm[s],
                              <<[type |-> "CONFIGURATION", data |-> final]>>)
                     ELSE log[s]
           exit == Exits(s, role[s], transition)
       IN
       /\ commitCh' = [commitCh EXCEPT ![s] = Tail(@)]
       /\ panicked' = [panicked EXCEPT ![s] = res.panic]
       /\ commitIndex' = [commitIndex EXCEPT ![s] = res.commitIndex]
       /\ lastApplied' = [lastApplied EXCEPT ![s] = res.lastApplied]
       /\ applied' = [applied EXCEPT ![s] = res.applied]
       /\ log' = [log EXCEPT ![s] = newLog]
       /\ conf' = IF transition THEN [conf EXCEPT ![s] = final] ELSE conf
       /\ confStore' = [confStore EXCEPT ![s] =
              [latestIndex |-> IF transition THEN lastLogIndex(newLog)
                               ELSE confStore[s].latestIndex,
               committed |-> IF e.index > 0 THEN e.body.data
                             ELSE confStore[s].committed]]
       /\ loop' = loopAfter(s, exit)
       /\ repl' = replAfter(s, exit)
       /\ election' = electionAfter(s, exit)
    /\ UNCHANGED <<listedEndpoint, serveFlag, transOps, clientsMu, clients, registerResult, flagReselectLoop, snapshot, rpcs, serve, followerTimer, applyCount,
                   calls, role, currentTerm, lastVote, clusterLeader, logOpsCh,
                   handlers, everLeader, votesGranted>>

----------------------------------------------------------------------------
\* Client commands

\* No result yet: the zero value of a log meta, and of an error.
NoMeta == [index |-> 0, term |-> 0]
NoError == ""

\* newFutureTask in Server.Apply: the call k made on server s, its position
\* (pc), the result of its internal append task (meta, err), and what its
\* returned future t was completed with (result) and how often (done).
NewCall(k, s, path, pc) ==
    [id |-> k, server |-> s, path |-> path, pc |-> pc, target |-> nilPeer,
     meta |-> NoMeta, err |-> NoError,
     result |-> [meta |-> NoMeta, err |-> NoError], done |-> 0]

\* FutureTask.setResult on the future a call of Apply returned.
setResult(c, meta, err) ==
    [c EXCEPT !.result = [meta |-> meta, err |-> err], !.done = @ + 1]

\* Server.Apply, leader path: the append operation is queued on logOpsCh.
\* Every client command is a different one: command k is the k-th submitted.
\* The future of the call is followed when track is set (the specifications
\* of replication alone leave the callers out).
Apply(s, track) ==
    /\ Settled /\ ~panicked[s] /\ role[s] = Leader
    /\ applyCount < MaxCommands
    /\ applyCount' = applyCount + 1
    /\ logOpsCh' = [logOpsCh EXCEPT ![s] =
           Append(@, [type |-> "COMMAND", data |-> applyCount + 1])]
    /\ calls' = IF track
                THEN calls \cup {NewCall(applyCount + 1, s, "leader", "queued")}
                ELSE calls
    /\ UNCHANGED <<listedEndpoint, serveFlag, transOps, clientsMu, clients, registerResult, flagReselectLoop, confStore, snapshot, rpcs, serve, followerTimer, role, currentTerm, lastVote, clusterLeader, log, commitIndex,
                   lastApplied, commitCh, applied, conf, loop, panicked, handlers,
                   election, repl, everLeader, votesGranted>>

\* runLoopLeader and runLoopFollower, case t := <-s.logOpsCh with an append
\* operation: op.setResult(s.appendLogs(op.Task())) completes the internal
\* task of the call with the meta of the entry appended.
logOpsEvent(s) ==
    /\ Selecting(s) /\ loop[s] \in {Leader, Follower}
    /\ logOpsCh[s] # <<>>
    /\ LET body == Head(logOpsCh[s])
           c == lastConfiguration(log[s], <<body>>)
           \* a configuration entry: alterConfiguration, reselectLoop
           exit == Exits(s, role[s], c # NoConf)
           newLog == appendLogs(log[s], currentTerm[s], <<body>>)
           meta == [index |-> newLog[Len(newLog)].index,
                    term |-> newLog[Len(newLog)].term]
       IN
       /\ log' = [log EXCEPT ![s] = newLog]
       /\ calls' = {IF /\ body.type = "COMMAND"
                       /\ d.server = s /\ d.id = body.data /\ d.pc = "queued"
                    THEN [d EXCEPT !.pc = "appended", !.meta = meta]
                    ELSE d : d \in calls}
       /\ conf' = IF c # NoConf THEN alterConfiguration(s, c) ELSE conf
       /\ confStore' = IF c # NoConf THEN SetLatest(s, c) ELSE confStore
       /\ logOpsCh' = [logOpsCh EXCEPT ![s] = Tail(@)]
       /\ loop' = loopAfter(s, exit)
       /\ repl' = replAfter(s, exit)
       /\ election' = electionAfter(s, exit)
    /\ UNCHANGED <<listedEndpoint, serveFlag, transOps, clientsMu, clients, registerResult, flagReselectLoop, snapshot, rpcs, serve, followerTimer, applyCount, role, currentTerm, lastVote, clusterLeader, commitIndex,
                   lastApplied, commitCh, applied, panicked, handlers,
                   everLeader, votesGranted>>

\* Server.Apply, leader path, after internalTask.Result(): the returned future
\* is completed with the meta of the entry, or with the error of the task.
\* For a call made by rpcHandler.ApplyLog this is also the reply of the handler.
ApplyReturn(c) ==
    /\ c \in calls /\ c.path \in {"leader", "rpc"} /\ c.pc = "appended"
    /\ ~panicked[c.server]
    /\ calls' = (calls \ {c}) \cup
          {[setResult(c, IF c.err = NoError THEN c.meta ELSE NoMeta, c.err)
               EXCEPT !.pc = "done"]}
    /\ UNCHANGED <<listedEndpoint, serveFlag, transOps, clientsMu, clients, registerResult, flagReselectLoop, confStore, snapshot, rpcs, serve, followerTimer, applyCount, role, currentTerm, lastVote, clusterLeader, log,
                   commitIndex, lastApplied, commitCh, logOpsCh, applied, conf,
                   loop, panicked, handlers, election, repl, everLeader,
                   votesGranted>>

\* Server.Apply, proxy path: the server is not the leader and starts a
\* goroutine that sends the body to the leader it knows, s.Leader().
ApplyProxy(s) ==
    /\ Settled /\ ~panicked[s] /\ role[s] # Leader
    /\ applyCount < MaxCommands
    /\ applyCount' = applyCount + 1
    /\ calls' = calls \cup
          {[NewCall(applyCount + 1, s, "proxy", "sent")
               EXCEPT !.target = clusterLeader[s]]}
    /\ UNCHANGED <<listedEndpoint, serveFlag, transOps, clientsMu, clients, registerResult, flagReselectLoop, confStore, snapshot, rpcs, serve, followerTimer, role, currentTerm, lastVote, clusterLeader, log, commitIndex,
                   lastApplied, commitCh, logOpsCh, applied, conf, loop, panicked,
                   handlers, election, repl, everLeader, votesGranted>>

\* Server.Apply, proxy path, s.trans.ApplyLog returned (nil, err), as it does
\* for a peer it cannot reach (the nil peer among them): the future is
\* completed with the error, and with no return after it the goroutine goes
\* on to response.Response, a nil pointer dereference that ends the process.
ProxyFailed(c) ==
    /\ c \in calls /\ c.pc = "sent"
    /\ ~panicked[c.server]
    /\ calls' = (calls \ {c}) \cup
          {[setResult(c, NoMeta, "Transport") EXCEPT !.pc = "crashed"]}
    /\ panicked' = [panicked EXCEPT ![c.server] = TRUE]
    /\ UNCHANGED <<listedEndpoint, serveFlag, transOps, clientsMu, clients, registerResult, flagReselectLoop, confStore, snapshot, rpcs, serve, followerTimer, applyCount, role, currentTerm, lastVote, clusterLeader, log,
                   commitIndex, lastApplied, commitCh, logOpsCh, applied, conf,
                   loop, handlers, election, repl, everLeader, votesGranted>>

\* An ApplyLog request of a remote caller reaches server p: the select of
\* p's role loop takes the RPC and starts a handler goroutine for it.
ApplyLogRequest(p) ==
    /\ Selecting(p)
    /\ applyCount < MaxCommands
    /\ LET exit == Exits(p, role[p], FALSE) IN
       /\ applyCount' = applyCount + 1
       /\ calls' = calls \cup {NewCall(applyCount + 1, p, "rpc", "check")}
       /\ loop' = loopAfter(p, exit)
       /\ repl' = replAfter(p, exit)
       /\ election' = electionAfter(p, exit)
    /\ followerTimer' = followerTimerReset(p)
    /\ UNCHANGED <<listedEndpoint, serveFlag, transOps, clientsMu, clients, registerResult, flagReselectLoop, confStore, snapshot, rpcs, serve, role, currentTerm, lastVote, clusterLeader, log, commitIndex,
                   lastApplied, commitCh, logOpsCh, applied, conf, panicked,
                   handlers, everLeader, votesGranted>>

\* rpcHandler.ApplyLog, the test of h.server.role(): a server that is not the
\* leader replies with the text of ErrNonLeader; the leader goes on to call
\* Server.Apply and to wait for its result.
ApplyLogCheck(c) ==
    /\ c \in calls /\ c.path = "rpc" /\ c.pc = "check"
    /\ Settled /\ ~panicked[c.server]
    /\ IF role[c.server] # Leader THEN
           /\ calls' = (calls \ {c}) \cup
                 {[setResult(c, NoMeta, "NonLeader") EXCEPT !.pc = "done"]}
           /\ UNCHANGED logOpsCh
       ELSE
           /\ calls' = (calls \ {c}) \cup {[c EXCEPT !.pc = "apply"]}
           /\ UNCHANGED logOpsCh
    /\ UNCHANGED <<listedEndpoint, serveFlag, transOps, clientsMu, clients, registerResult, flagReselectLoop, confStore, snapshot, rpcs, serve, followerTimer, applyCount, role, currentTerm, lastVote, clusterLeader, log,
                   commitIndex, lastApplied, commitCh, applied, conf, loop,
                   panicked, handlers, election, repl, everLeader, votesGranted>>

\* Server.Apply called by rpcHandler.ApplyLog: it reads the role again.  The
\* leader path queues the append operation; a server that has left the role
\* of leader since the test of the handler takes the proxy path and sends
\* the body to the leader it knows, s.Leader().
ApplyLogApply(c) ==
    /\ c \in calls /\ c.path = "rpc" /\ c.pc = "apply"
    /\ ~panicked[c.server]
    /\ IF role[c.server] = Leader THEN
           /\ calls' = (calls \ {c}) \cup {[c EXCEPT !.pc = "queued"]}
           /\ logOpsCh' = [logOpsCh EXCEPT ![c.server] =
                  Append(@, [type |-> "COMMAND", data |-> c.id])]
       ELSE
           /\ calls' = (calls \ {c}) \cup
                 {[c EXCEPT !.pc = "sent", !.target = clusterLeader[c.server]]}
           /\ UNCHANGED logOpsCh
    /\ UNCHANGED <<listedEndpoint, serveFlag, transOps, clientsMu, clients, registerResult, flagReselectLoop, confStore, snapshot, rpcs, serve, followerTimer, applyCount, role, currentTerm, lastVote, clusterLeader, log,
                   commitIndex, lastApplied, commitCh, applied, conf, loop,
                   panicked, handlers, election, repl, everLeader, votesGranted>>

\* Server.Apply, proxy path, s.trans.ApplyLog reaches the peer: the select of
\* the role loop of the peer takes the RPC and starts a handler goroutine for
\* it; the goroutine of the proxy path waits for the response.
ProxyDelivered(c) ==
    /\ c \in calls /\ c.pc = "sent" /\ c.target \in Server
    /\ ~panicked[c.server]
    /\ Selecting(c.target)
    /\ LET p == c.target
           exit == Exits(p, role[p], FALSE) IN
       /\ calls' = (calls \ {c}) \cup
             {[c EXCEPT !.pc = "waiting"], NewCall(c.id, p, "rpc", "check")}
       /\ loop' = loopAfter(p, exit)
       /\ repl' = replAfter(p, exit)
       /\ election' = electionAfter(p, exit)
       /\ followerTimer' = followerTimerReset(p)
    /\ UNCHANGED <<listedEndpoint, serveFlag, transOps, clientsMu, clients, registerResult, flagReselectLoop, confStore, snapshot, rpcs, serve, applyCount, role, currentTerm, lastVote, clusterLeader, log, commitIndex,
                   lastApplied, commitCh, logOpsCh, applied, conf, panicked,
                   handlers, everLeader, votesGranted>>

\* Server.Apply, proxy path, the response of the peer has arrived: the future
\* is completed with the meta or with the error of the response.
ProxyReturn(c) ==
    /\ c \in calls /\ c.pc = "waiting"
    /\ ~panicked[c.server]
    /\ \E d \in calls :
          /\ d.id = c.id /\ d.server = c.target /\ d.path = "rpc"
          /\ d.pc = "done"
          /\ calls' = (calls \ {c}) \cup
                {[setResult(c, d.result.meta, d.result.err)
                     EXCEPT !.pc = "done"]}
    /\ UNCHANGED <<listedEndpoint, serveFlag, transOps, clientsMu, clients, registerResult, flagReselectLoop, confStore, snapshot, rpcs, serve, followerTimer, applyCount, role, currentTerm, lastVote, clusterLeader, log,
                   commitIndex, lastApplied, commitCh, logOpsCh, applied, conf,
                   loop, panicked, handlers, election, repl, everLeader,
                   votesGranted>>

----------------------------------------------------------------------------
\* Replication (leader only)

\* The request a driver builds: the entries from nextIndex on, the entry that
\* precedes them, and the leader's commit index.
AppendEntriesRequest(l, nextIndex) ==
    LET prev == nextIndex - 1 IN
    [kind |-> "AE", term |-> currentTerm[l], leaderId |-> l,
     prevLogIndex |-> prev,
     prevLogTerm |-> IF prev > 0 /\ HasEntry(log[l], prev)
                     THEN Entry(log[l], prev).term ELSE 0,
     entries |-> SelectSeq(log[l], LAMBDA e : e.index >= nextIndex),
     leaderCommit |-> commitIndex[l]]

\* The driver for peer p sends AppendEntries; the select of p's role loop takes
\* the RPC and starts a handler goroutine for it.
ReplSend(l, p, cap) ==
    /\ Settled /\ ~panicked[l] /\ repl[l].running
    /\ p \in Peers(conf[l]) \ {l}
    /\ LET d == repl[l].drv[p] IN
       /\ ~d.exited /\ d.out = NoReq /\ d.resp = NoResp
       /\ CanDispatch(p, cap)
       /\ LET req == AppendEntriesRequest(l, d.nextIndex)
              exit == Exits(p, role[p], FALSE)
          IN
          /\ handlers' = [handlers EXCEPT ![p] = @ \cup
                 {[kind |-> "AE", from |-> l, req |-> req,
                   pc |-> "check", respTerm |-> 0, higher |-> FALSE]}]
          /\ loop' = loopAfter(p, exit)
          /\ election' = electionAfter(p, exit)
          /\ repl' = [replAfter(p, exit) EXCEPT ![l].drv[p].out = req]
    /\ followerTimer' = followerTimerReset(p)
    /\ UNCHANGED <<listedEndpoint, serveFlag, transOps, clientsMu, clients, registerResult, flagReselectLoop, confStore, snapshot, rpcs, serve, applyCount, calls, role, currentTerm, lastVote, clusterLeader, log, commitIndex,
                   lastApplied, commitCh, logOpsCh, applied, conf, panicked,
                   everLeader, votesGranted>>

\* The response of an AppendEntries handler reaches the driver that sent the
\* request, unless the scheduler was stopped in between.
AppendDelivered(h, s, resp) ==
    IF repl[h.from].running /\ repl[h.from].drv[s].out = h.req
    THEN [repl EXCEPT ![h.from].drv[s].out = NoReq,
                      ![h.from].drv[s].resp = resp]
    ELSE repl

\* A response that reports success whatever the handler found.
AppendEntriesResponseAccepting(h, term, success) ==
    [kind |-> "AEResp", term |-> term, success |-> TRUE,
     last |-> h.req.prevLogIndex + Len(h.req.entries)]

\* rpcHandler.AppendEntries, the response: the term of the receiver and
\* whether the entries were accepted (with the last index they cover).
AppendEntriesResponse(h, term, success) ==
    [kind |-> "AEResp", term |-> term, success |-> success,
     last |-> h.req.prevLogIndex + Len(h.req.entries)]

\* rpcHandler.AppendEntries, up to the test of request.Term > currentTerm.
AppendEntriesCheck(s, h) ==
    /\ Settled /\ ~panicked[s] /\ h \in handlers[s] /\ h.kind = "AE" /\ h.pc = "check"
    /\ LET req == h.req IN
       IF req.term < currentTerm[s] THEN
           /\ handlers' = [handlers EXCEPT ![s] = @ \ {h}]
           /\ repl' = AppendDelivered(h, s,
                          AppendEntriesResponse(h, currentTerm[s], FALSE))
           /\ UNCHANGED clusterLeader
       ELSE
           /\ clusterLeader' =
                IF clusterLeader[s] # req.leaderId
                THEN [clusterLeader EXCEPT ![s] = Peer(conf[s], req.leaderId)]
                ELSE clusterLeader
           /\ handlers' = [handlers EXCEPT ![s] = (@ \ {h}) \cup
                  {[h EXCEPT !.pc = "act", !.respTerm = currentTerm[s],
                             !.higher = (req.term > currentTerm[s])]}]
           /\ UNCHANGED repl
    /\ UNCHANGED <<listedEndpoint, serveFlag, transOps, clientsMu, clients, registerResult, flagReselectLoop, confStore, snapshot, rpcs, serve, followerTimer, applyCount, calls, role, currentTerm, lastVote, log, commitIndex, lastApplied,
                   commitCh, logOpsCh, applied, conf, loop, panicked, election,
                   everLeader, votesGranted>>

\* The conflict scan of AppendEntries: the position in request.Entries of the
\* first entry that is beyond the last log index or differs in term from the
\* local entry of its index (firstAppendArrayIndex + 1), or Len + 1 if none.
FirstUnmatched(entries, lg) ==
    LET bad == {i \in 1..Len(entries) :
                   \/ entries[i].index > lastLogIndex(lg)
                   \/ ~HasEntry(lg, entries[i].index)
                   \/ Entry(lg, entries[i].index).term # entries[i].term}
    IN IF bad = {} THEN Len(entries) + 1
       ELSE CHOOSE i \in bad : \A j \in bad : i <= j

\* rpcHandler.AppendEntries, the entries of the request: the log after the
\* clean-up of a conflicting suffix and the append of the remaining bodies.
AppendEntriesLog(lg, term, entries) ==
    IF Len(entries) = 0 THEN lg
    ELSE LET first == FirstUnmatched(entries, lg)
             conflict == /\ first <= Len(entries)
                         /\ entries[first].index <= lastLogIndex(lg)
             kept == IF conflict THEN DeleteAfter(lg, entries[first].index) ELSE lg
             bodies == [i \in 1..(Len(entries) - first + 1) |->
                           entries[first + i - 1].body]
         IN appendLogs(kept, term, bodies)

\* The configuration the handler's call of appendLogs finds among the bodies
\* it appends.
appendedConfiguration(lg, entries) ==
    IF Len(entries) = 0 THEN NoConf
    ELSE LET first == FirstUnmatched(entries, lg)
             conflict == /\ first <= Len(entries)
                         /\ entries[first].index <= lastLogIndex(lg)
             kept == IF conflict THEN DeleteAfter(lg, entries[first].index) ELSE lg
             bodies == [i \in 1..(Len(entries) - first + 1) |->
                           entries[first + i - 1].body]
         IN lastConfiguration(kept, bodies)

\* A test of the previous entry that lets every request through.
PrevLogMismatchIgnored(lg, req) == FALSE

\* rpcHandler.AppendEntries, the test of the entry that precedes the new
\* ones: it is missing, or its term is not the one the request gives.
PrevLogMismatch(lg, req) ==
    /\ req.prevLogIndex > 0
    /\ \/ ~HasEntry(lg, req.prevLogIndex)
       \/ Entry(lg, req.prevLogIndex).term # req.prevLogTerm

\* rpcHandler.AppendEntries, from the stepdown to the reply.
AppendEntriesAct(s, h) ==
    /\ Settled /\ ~panicked[s] /\ h \in handlers[s] /\ h.kind = "AE" /\ h.pc = "act"
    /\ LET req == h.req
           stepdown == h.higher /\ role[s] # Follower
           term == IF h.higher THEN req.term ELSE currentTerm[s]
           respTerm == IF h.higher THEN term ELSE h.respTerm
           mismatch == PrevLogMismatch(log[s], req)
           newLog == AppendEntriesLog(log[s], term, req.entries)
           c == IF mismatch THEN NoConf
                ELSE appendedConfiguration(log[s], req.entries)
           stale == req.leaderCommit > commitIndex[s]
           full == Len(commitCh[s]) >= MaxCommitCh
       IN
       /\ role' = IF stepdown THEN [role EXCEPT ![s] = Follower] ELSE role
       /\ clusterLeader' =
            IF stepdown
            THEN [clusterLeader EXCEPT ![s] = Peer(conf[s], req.leaderId)]
            ELSE clusterLeader
       /\ currentTerm' = IF h.higher THEN alterTerm(s, req.term) ELSE currentTerm
       \* appendLogs with a configuration entry: alterConfiguration, reselectLoop
       /\ conf' = IF c # NoConf THEN alterConfiguration(s, c) ELSE conf
       /\ confStore' = IF c # NoConf THEN SetLatest(s, c) ELSE confStore
       /\ flagReselectLoop' = IF c # NoConf
                               THEN [flagReselectLoop EXCEPT ![s] = TRUE]
                               ELSE flagReselectLoop
       /\ IF mismatch THEN
              /\ handlers' = [handlers EXCEPT ![s] = @ \ {h}]
              /\ repl' = AppendDelivered(h, s,
                             AppendEntriesResponse(h, respTerm, FALSE))
              /\ UNCHANGED <<log, commitCh>>
          ELSE
              /\ log' = [log EXCEPT ![s] = newLog]
              /\ IF stale /\ full THEN
                     \* s.commitCh <- commitIndex blocks until there is room
                     /\ handlers' = [handlers EXCEPT ![s] = (@ \ {h}) \cup
                            {[h EXCEPT !.pc = "commit", !.respTerm = respTerm]}]
                     /\ UNCHANGED <<repl, commitCh>>
                 ELSE
                     /\ commitCh' = IF stale
                          THEN [commitCh EXCEPT ![s] = Append(@, req.leaderCommit)]
                          ELSE commitCh
                     /\ handlers' = [handlers EXCEPT ![s] = @ \ {h}]
                     /\ repl' = AppendDelivered(h, s,
                                    AppendEntriesResponse(h, respTerm, TRUE))
    /\ UNCHANGED <<listedEndpoint, serveFlag, transOps, clientsMu, clients, registerResult, snapshot, rpcs, serve, followerTimer, applyCount, calls, lastVote, commitIndex, lastApplied, logOpsCh, applied,
                   loop, panicked, election, everLeader, votesGranted>>

\* rpcHandler.AppendEntries, alterCommitIndex once commitCh has room again.
AppendEntriesCommit(s, h) ==
    /\ Settled /\ ~panicked[s] /\ h \in handlers[s] /\ h.kind = "AE" /\ h.pc = "commit"
    /\ Len(commitCh[s]) < MaxCommitCh
    /\ commitCh' = [commitCh EXCEPT ![s] = Append(@, h.req.leaderCommit)]
    /\ handlers' = [handlers EXCEPT ![s] = @ \ {h}]
    /\ repl' = AppendDelivered(h, s, AppendEntriesResponse(h, h.respTerm, TRUE))
    /\ UNCHANGED <<listedEndpoint, serveFlag, transOps, clientsMu, clients, registerResult, flagReselectLoop, confStore, snapshot, rpcs, serve, followerTimer, applyCount, calls, role, currentTerm, lastVote, clusterLeader, log, commitIndex,
                   lastApplied, logOpsCh, applied, conf, loop, panicked, election,
                   everLeader, votesGranted>>

\* A driver takes the response of its request: a higher term is published on
\* the stepdown channel and the driver exits; success moves matchIndex and
\* nextIndex forward; failure moves nextIndex back, not below 1.
ReplRecv(l, p) ==
    /\ Settled /\ ~panicked[l] /\ repl[l].running
    /\ LET d == repl[l].drv[p]
           r == d.resp
       IN
       /\ r # NoResp
       /\ IF r.term > currentTerm[l] THEN
              /\ repl[l].stepdownCh = <<>>
              /\ repl' = [repl EXCEPT ![l].stepdownCh = <<r.term>>,
                                      ![l].drv[p].resp = NoResp,
                                      ![l].drv[p].exited = TRUE]
          ELSE IF r.success THEN
              repl' = [repl EXCEPT ![l].drv[p].resp = NoResp,
                                   ![l].drv[p].matchIndex = r.last,
                                   ![l].drv[p].nextIndex = r.last + 1]
          ELSE
              repl' = [repl EXCEPT ![l].drv[p].resp = NoResp,
                                   ![l].drv[p].nextIndex = Max(1, d.nextIndex - 1)]
    /\ UNCHANGED <<listedEndpoint, serveFlag, transOps, clientsMu, clients, registerResult, flagReselectLoop, confStore, snapshot, rpcs, serve, followerTimer, applyCount, calls, role, currentTerm, lastVote, clusterLeader, log, commitIndex,
                   lastApplied, commitCh, logOpsCh, applied, conf, loop, panicked,
                   handlers, election, everLeader, votesGranted>>

\* runLoopLeader, case term := <-stepdownCh
stepdownEvent(s) ==
    /\ Selecting(s) /\ loop[s] = Leader
    /\ repl[s].stepdownCh # <<>>
    /\ role' = [role EXCEPT ![s] = Follower]
    /\ clusterLeader' = [clusterLeader EXCEPT ![s] = nilPeer]
    /\ currentTerm' = alterTerm(s, Head(repl[s].stepdownCh))
    /\ loop' = loopAfter(s, TRUE)
    /\ repl' = replAfter(s, TRUE)
    /\ UNCHANGED <<listedEndpoint, serveFlag, transOps, clientsMu, clients, registerResult, flagReselectLoop, confStore, snapshot, rpcs, serve, followerTimer, applyCount, calls, lastVote, log, commitIndex, lastApplied, commitCh, logOpsCh,
                   applied, conf, panicked, handlers, election, everLeader,
                   votesGranted>>

\* The indices the commit-advance watcher may commit: above the commit index,
\* of the leader's current term, and stored on a quorum of every active set.
Replicated(l, k) ==
    {l} \cup {p \in Server \ {l} : repl[l].drv[p].matchIndex >= k}

Committable(l) ==
    {k \in (commitIndex[l] + 1)..lastLogIndex(log[l]) :
        /\ HasEntry(log[l], k)
        /\ Entry(log[l], k).term = currentTerm[l]
        /\ Cardinality(Replicated(l, k) \cap conf[l].current)
              >= Quorum(conf[l].current)
        /\ Joint(conf[l]) =>
              Cardinality(Replicated(l, k) \cap conf[l].next)
                 >= Quorum(conf[l].next)}

\* The commit-advance watcher publishes the highest committable index.
AdvanceCommit(l) ==
    /\ Settled /\ ~panicked[l] /\ repl[l].running
    /\ Committable(l) # {}
    /\ Len(commitCh[l]) < MaxCommitCh
    /\ LET k == CHOOSE k \in Committable(l) : \A j \in Committable(l) : j <= k IN
       commitCh' = [commitCh EXCEPT ![l] = Append(@, k)]
    /\ UNCHANGED <<listedEndpoint, serveFlag, transOps, clientsMu, clients, registerResult, flagReselectLoop, confStore, snapshot, rpcs, serve, followerTimer, applyCount, calls, role, currentTerm, lastVote, clusterLeader, log, commitIndex,
                   lastApplied, logOpsCh, applied, conf, loop, panicked, handlers,
                   election, repl, everLeader, votesGranted>>

----------------------------------------------------------------------------
\* The cluster: elections, client commands, replication and commit, with at
\* most MaxInFlight inbound RPCs being handled at a time.
Next ==
    \/ \E s \in Server : runLoopFollower(s)
    \/ \E s \in Server : startElection(s, MaxTerm)
    \/ \E s \in Server : runLoopLeader(s)
    \/ \E s \in Server : followerTimeout(s)
    \/ \E s \in Server : electionTimeout(s)
    \/ \E c \in Server, p \in Server : SendRequestVote(c, p, MaxInFlight)
    \/ \E s \in Server : \E h \in handlers[s] : RequestVoteCheck(s, h)
    \/ \E s \in Server : \E h \in handlers[s] : RequestVoteAct(s, h)
    \/ \E s \in Server : \E r \in election[s].resCh : voteResponse(s, r)
    \/ \E s \in Server : commitEvent(s)
    \/ \E s \in Server : Apply(s, FALSE)
    \/ \E s \in Server : logOpsEvent(s)
    \/ \E l \in Server, p \in Server : ReplSend(l, p, MaxInFlight)
    \/ \E s \in Server : \E h \in handlers[s] : AppendEntriesCheck(s, h)
    \/ \E s \in Server : \E h \in handlers[s] : AppendEntriesAct(s, h)
    \/ \E s \in Server : \E h \in handlers[s] : AppendEntriesCommit(s, h)
    \/ \E l \in Server, p \in Server : ReplRecv(l, p)
    \/ \E s \in Server : stepdownEvent(s)
    \/ \E l \in Server : AdvanceCommit(l)

Spec == Init /\ [][Next]_vars

\* Elections alone, with every server handling up to MaxHandlers inbound
\* RPCs at the same time.
NextElection ==
    \/ \E s \in Server : runLoopFollower(s)
    \/ \E s \in Server : startElection(s, MaxElectionTerm)
    \/ \E s \in Server : runLoopLeader(s)
    \/ \E s \in Server : followerTimeout(s)
    \/ \E s \in Server : electionTimeout(s)
    \/ \E c \in Server, p \in Server :
          SendRequestVote(c, p, MaxHandlers * Cardinality(Server))
    \/ \E s \in Server : \E h \in handlers[s] : RequestVoteCheck(s, h)
    \/ \E s \in Server : \E h \in handlers[s] : RequestVoteAct(s, h)
    \/ \E s \in Server : \E r \in election[s].resCh : voteResponse(s, r)

SpecElection == Init /\ [][NextElection]_vars

----------------------------------------------------------------------------
\* One inbound RPC, handled by a follower in the middle of the life of a
\* cluster.  The follower B holds any log and any vote that earlier terms can
\* have left (the cluster may have had further members); the sender A is a
\* leader whose driver has an AppendEntries request under way, or a candidate
\* whose election has a RequestVote request under way.

\* The logs a server can hold in term t: indices from 1, terms that never
\* decrease and are not above t.
Logs(t) ==
    {lg \in UNION {[1..n -> [index : 1..MaxLogLen, term : 1..t,
                             body : {[type |-> "COMMAND", data |-> 1]}]] :
                   n \in 0..MaxLogLen} :
        \A i \in DOMAIN lg :
            /\ lg[i].index = i
            /\ i > 1 => lg[i - 1].term <= lg[i].term}

\* The vote summaries a server can hold in term t when peer c has reached
\* term tc: none, or a vote of a term up to t for a candidate of that term.
Votes(t, c, tc) ==
    {[term |-> 0, candidate |-> nilPeer]} \cup
    {v \in [term : 1..t, candidate : Server] : v.candidate = c => v.term <= tc}

InitReceiver ==
    \E kind \in {"AE", "RV"}, tA \in 1..MaxTerm, tB \in 0..MaxTerm :
    \E lgA \in Logs(tA), lgB \in Logs(tB), vB \in Votes(tB, "A", tA) :
    \E next \in 1..(Len(lgA) + 1) :
        /\ role = [s \in Server |->
                      IF s = "B" THEN Follower
                      ELSE IF kind = "AE" THEN Leader ELSE Candidate]
        /\ currentTerm = [s \in Server |-> IF s = "B" THEN tB ELSE tA]
        /\ lastVote = [s \in Server |->
                          IF s = "B" THEN vB ELSE [term |-> tA, candidate |-> s]]
        /\ clusterLeader = [s \in Server |->
                               IF s = "A" /\ kind = "AE" THEN s ELSE nilPeer]
        /\ log = [s \in Server |-> IF s = "B" THEN lgB ELSE lgA]
        /\ commitIndex = [s \in Server |-> 0]
        /\ lastApplied = [s \in Server |-> [index |-> 0, term |-> 0]]
        /\ commitCh = [s \in Server |-> <<>>]
        /\ logOpsCh = [s \in Server |-> <<>>]
        /\ applied = [s \in Server |-> <<>>]
        /\ conf = [s \in Server |-> InitConf]
        /\ loop = role
        /\ panicked = [s \in Server |-> FALSE]
        /\ LET req == IF kind = "AE" THEN AppendEntriesRequest("A", next)
                      ELSE RequestVoteRequest("A", tA)
           IN
           /\ handlers = [s \in Server |->
                  IF s = "B"
                  THEN {[kind |-> kind, from |-> "A", req |-> req,
                         pc |-> "check", respTerm |-> 0, higher |-> FALSE]}
                  ELSE {}]
           /\ election = [s \in Server |->
                  IF s = "A" /\ kind = "RV"
                  THEN [active |-> TRUE, req |-> req, toAsk |-> {},
                        resCh |-> {[serverId |-> s, term |-> tA,
                                    granted |-> TRUE]},
                        currentVotes |-> 0, nextVotes |-> 0]
                  ELSE InitElection]
           /\ repl = [s \in Server |->
                  IF s = "A" /\ kind = "AE"
                  THEN [running |-> TRUE, stepdownCh |-> <<>>,
                        drv |-> [p \in Server |->
                            IF p = "B"
                            THEN [InitDriver EXCEPT !.nextIndex = next,
                                                    !.out = req]
                            ELSE [InitDriver EXCEPT
                                     !.nextIndex = Len(lgA) + 1]]]
                  ELSE InitRepl]
        /\ everLeader = IF kind = "AE" THEN {[term |-> tA, server |-> "A"]}
                        ELSE {}
        /\ votesGranted =
              {[voter |-> "A", term |-> tA, candidate |-> "A"]} \cup
              (IF vB.term > 0
               THEN {[voter |-> "B", term |-> vB.term, candidate |-> vB.candidate]}
               ELSE {})
        /\ applyCount = 0
        /\ listedEndpoint = [s \in Server |-> Endpoint(s)]
        /\ serveFlag = [s \in Server |-> 1]
        /\ transOps = InitTransOps
        /\ clientsMu = InitClientsMu
        /\ clients = {}
        /\ registerResult = [s \in Server |-> "None"]
        /\ flagReselectLoop = [s \in Server |-> FALSE]
        /\ confStore = [s \in Server |-> InitConfStore]
        /\ snapshot = [s \in Server |-> InitSnapshotState]
        /\ rpcs = {}
        /\ serve = [s \in Server |-> InitServe]
        /\ followerTimer = [s \in Server |-> [period |-> 0, left |-> 0]]
        /\ calls = {}

\* The handler goroutine of the request runs to its reply, and the driver
\* that sent an AppendEntries request takes the response.
NextReceiver ==
    \/ \E s \in Server : \E h \in handlers[s] : RequestVoteCheck(s, h)
    \/ \E s \in Server : \E h \in handlers[s] : RequestVoteAct(s, h)
    \/ \E s \in Server : \E h \in handlers[s] : AppendEntriesCheck(s, h)
    \/ \E s \in Server : \E h \in handlers[s] : AppendEntriesAct(s, h)
    \/ \E l \in Server, p \in Server : ReplRecv(l, p)

SpecReceiver == InitReceiver /\ [][NextReceiver]_vars

----------------------------------------------------------------------------
\* Client commands in the replicated cluster: elections, calls of Apply on
\* the leaders and replication of their entries, the commit path left out.
NextApply ==
    \/ \E s \in Server : runLoopFollower(s)
    \/ \E s \in Server : startElection(s, MaxTerm)
    \/ \E s \in Server : runLoopLeader(s)
    \/ \E s \in Server : followerTimeout(s)
    \/ \E s \in Server : electionTimeout(s)
    \/ \E c \in Server, p \in Server : SendRequestVote(c, p, MaxInFlight)
    \/ \E s \in Server : \E h \in handlers[s] : RequestVoteCheck(s, h)
    \/ \E s \in Server : \E h \in handlers[s] : RequestVoteAct(s, h)
    \/ \E s \in Server : \E r \in election[s].resCh : voteResponse(s, r)
    \/ \E s \in Server : Apply(s, TRUE)
    \/ \E s \in Server : logOpsEvent(s)
    \/ \E c \in calls : ApplyReturn(c)
    \/ \E l \in Server, p \in Server : ReplSend(l, p, MaxInFlight)
    \/ \E s \in Server : \E h \in handlers[s] : AppendEntriesCheck(s, h)
    \/ \E s \in Server : \E h \in handlers[s] : AppendEntriesAct(s, h)
    \/ \E l \in Server, p \in Server : ReplRecv(l, p)
    \/ \E s \in Server : stepdownEvent(s)

SpecApply == Init /\ [][NextApply]_vars

----------------------------------------------------------------------------
\* First nodes.  Serve finds an empty configuration on every server: each one
\* is the first node of a cluster of its own, with the configuration entry
\* that Serve appends (index 1, term 0) as its whole log and itself as the
\* only peer.

InitBootstrap ==
    /\ role = [s \in Server |-> Follower]
    /\ currentTerm = [s \in Server |-> 0]
    /\ lastVote = [s \in Server |-> [term |-> 0, candidate |-> nilPeer]]
    /\ clusterLeader = [s \in Server |-> nilPeer]
    /\ log = [s \in Server |->
                 appendLogs(<<>>, 0, <<[type |-> "CONFIGURATION",
                                        data |-> [current |-> {s}, next |-> {}]]>>)]
    /\ commitIndex = [s \in Server |-> 0]
    /\ lastApplied = [s \in Server |-> [index |-> 0, term |-> 0]]
    /\ commitCh = [s \in Server |-> <<>>]
    /\ logOpsCh = [s \in Server |-> <<>>]
    /\ applied = [s \in Server |-> <<>>]
    /\ conf = [s \in Server |-> [current |-> {s}, next |-> {}]]
    /\ loop = [s \in Server |-> "main"]
    /\ panicked = [s \in Server |-> FALSE]
    /\ handlers = [s \in Server |-> {}]
    /\ election = [s \in Server |-> InitElection]
    /\ repl = [s \in Server |-> InitRepl]
    /\ everLeader = {}
    /\ votesGranted = {}
    /\ applyCount = 0
    /\ listedEndpoint = [s \in Server |-> Endpoint(s)]
    /\ serveFlag = [s \in Server |-> 1]
    /\ transOps = InitTransOps
    /\ clientsMu = InitClientsMu
    /\ clients = {}
    /\ registerResult = [s \in Server |-> "None"]
    /\ flagReselectLoop = [s \in Server |-> FALSE]
    /\ confStore = [s \in Server |->
          [latestIndex |-> 1, committed |-> [current |-> {}, next |-> {}]]]
    /\ snapshot = [s \in Server |-> InitSnapshotState]
    /\ rpcs = {}
    /\ serve = [s \in Server |-> InitServe]
    /\ followerTimer = [s \in Server |-> [period |-> 0, left |-> 0]]
    /\ calls = {}

\* The steps of a first node that is left alone: its timer makes it a
\* candidate, its own vote makes it the leader, and from then on it takes
\* the commands of its clients.  The election timer has only just been
\* started when the candidate loop finds the server's own response waiting.
NextAlone ==
    \/ \E s \in Server : runLoopFollower(s)
    \/ \E s \in Server : followerTimeout(s)
    \/ \E s \in Server : startElection(s, MaxTerm)
    \/ \E s \in Server : \E r \in election[s].resCh : voteResponse(s, r)
    \/ \E s \in Server : runLoopLeader(s)
    \/ \E s \in Server : Apply(s, TRUE)
    \/ \E s \in Server : logOpsEvent(s)
    \/ \E c \in calls : ApplyReturn(c)
    \/ \E l \in Server : AdvanceCommit(l)
    \/ \E s \in Server : commitEvent(s)

\* The timers fire and the main loop keeps running: no step of the server
\* that stays possible is put off for ever.
FairAlone ==
    \A s \in Server :
        /\ WF_vars(runLoopFollower(s))
        /\ WF_vars(followerTimeout(s))
        /\ WF_vars(startElection(s, MaxTerm))
        /\ WF_vars(\E r \in election[s].resCh : voteResponse(s, r))
        /\ WF_vars(runLoopLeader(s))

SpecAlone == InitBootstrap /\ [][NextAlone]_vars /\ FairAlone

\* First nodes with their callers: calls of Apply at any time, whatever the
\* role of the server, and ApplyLog requests of remote callers.
NextBootstrap ==
    \/ NextAlone
    \/ \E s \in Server : electionTimeout(s)
    \/ \E s \in Server : ApplyProxy(s)
    \/ \E c \in calls : ProxyFailed(c)
    \/ \E p \in Server : ApplyLogRequest(p)
    \/ \E c \in calls : ApplyLogCheck(c)
    \/ \E c \in calls : ApplyLogApply(c)

SpecBootstrap == InitBootstrap /\ [][NextBootstrap]_vars

----------------------------------------------------------------------------
\* InstallSnapshot and unrecognised requests

\* RPC.respond: the response is sent to responseCh, a channel of capacity 1.
respond(r, response) ==
    [r EXCEPT !.responseCh = Append(@, response), !.responds = @ + 1]

\* grpcTransService.InstallSnapshot (or another transport, for a request of a
\* type the server does not know): NewRPC, s.rpcCh <- r; the role loop of p
\* takes the RPC and starts handleRPC for it.
dispatchRPC(p, kind) ==
    /\ Selecting(p)
    /\ Cardinality(rpcs) < MaxRPCs
    /\ LET exit == Exits(p, role[p], FALSE) IN
       /\ rpcs' = rpcs \cup
             {[id |-> Cardinality(rpcs) + 1, server |-> p, kind |-> kind,
               pc |-> "handle", responseCh |-> <<>>, responds |-> 0,
               stream |-> IF kind = "InstallSnapshot" THEN "open" ELSE "none",
               received |-> <<>>]}
       /\ loop' = loopAfter(p, exit)
       /\ repl' = replAfter(p, exit)
       /\ election' = electionAfter(p, exit)
    /\ followerTimer' = followerTimerReset(p)
    /\ UNCHANGED <<listedEndpoint, serveFlag, transOps, clientsMu, clients, registerResult, flagReselectLoop, confStore, snapshot, serve, applyCount, calls, role, currentTerm, lastVote,
                   clusterLeader, log, commitIndex, lastApplied, commitCh, logOpsCh,
                   applied, conf, panicked, handlers, everLeader, votesGranted>>

\* Server.handleRPC: the InstallSnapshot case responds with what
\* rpcHandler.InstallSnapshot returns (nil, nil); the default case logs a
\* warning and responds nothing.
handleRPC(r) ==
    /\ r \in rpcs /\ r.pc = "handle" /\ ~panicked[r.server]
    /\ IF r.kind = "InstallSnapshot"
       THEN /\ r.responseCh = <<>>
            /\ rpcs' = (rpcs \ {r}) \cup {[respond(r, "ack") EXCEPT !.pc = "response"]}
       ELSE rpcs' = (rpcs \ {r}) \cup {[r EXCEPT !.pc = "returned"]}
    /\ UNCHANGED <<listedEndpoint, serveFlag, transOps, clientsMu, clients, registerResult, flagReselectLoop, confStore, snapshot, serve, followerTimer, applyCount, calls, role, currentTerm, lastVote,
                   clusterLeader, log, commitIndex, lastApplied, commitCh, logOpsCh,
                   applied, conf, handlers, everLeader, votesGranted, panicked, loop, election, repl>>

\* Server.handleRPC, InstallSnapshot case: the handler reads a response of
\* its own RPC and panics when it holds an error.
handleRPCResponse(r) ==
    /\ r \in rpcs /\ r.pc = "response" /\ ~panicked[r.server]
    /\ r.responseCh # <<>>
    /\ rpcs' = (rpcs \ {r}) \cup
          {[r EXCEPT !.responseCh = Tail(@),
                     !.pc = IF Head(r.responseCh) = "error" THEN "panicked"
                            ELSE "returned"]}
    /\ panicked' = [panicked EXCEPT ![r.server] = @ \/ Head(r.responseCh) = "error"]
    /\ UNCHANGED <<listedEndpoint, serveFlag, transOps, clientsMu, clients, registerResult, flagReselectLoop, confStore, snapshot, serve, followerTimer, applyCount, calls, role, currentTerm, lastVote,
                   clusterLeader, log, commitIndex, lastApplied, commitCh, logOpsCh,
                   applied, conf, handlers, everLeader, votesGranted, loop, election, repl>>

\* grpcTransService.InstallSnapshot, the goroutine that copies the stream:
\* stream.Recv fails and the goroutine responds with the error.
streamFailed(r) ==
    /\ r \in rpcs /\ r.stream = "open" /\ r.responseCh = <<>>
    /\ rpcs' = (rpcs \ {r}) \cup {[respond(r, "error") EXCEPT !.stream = "failed"]}
    /\ UNCHANGED <<listedEndpoint, serveFlag, transOps, clientsMu, clients, registerResult, flagReselectLoop, confStore, snapshot, serve, followerTimer, applyCount, calls, role, currentTerm, lastVote,
                   clusterLeader, log, commitIndex, lastApplied, commitCh, logOpsCh,
                   applied, conf, handlers, everLeader, votesGranted, panicked, loop, election, repl>>

\* The same goroutine: stream.Recv returns io.EOF.
streamEOF(r) ==
    /\ r \in rpcs /\ r.stream = "open"
    /\ rpcs' = (rpcs \ {r}) \cup {[r EXCEPT !.stream = "eof"]}
    /\ UNCHANGED <<listedEndpoint, serveFlag, transOps, clientsMu, clients, registerResult, flagReselectLoop, confStore, snapshot, serve, followerTimer, applyCount, calls, role, currentTerm, lastVote,
                   clusterLeader, log, commitIndex, lastApplied, commitCh, logOpsCh,
                   applied, conf, handlers, everLeader, votesGranted, panicked, loop, election, repl>>

\* The transport service: response, err := r.Response()
transResponse(r) ==
    /\ r \in rpcs /\ r.received = <<>> /\ r.responseCh # <<>>
    /\ rpcs' = (rpcs \ {r}) \cup
          {[r EXCEPT !.responseCh = Tail(@), !.received = <<Head(r.responseCh)>>]}
    /\ UNCHANGED <<listedEndpoint, serveFlag, transOps, clientsMu, clients, registerResult, flagReselectLoop, confStore, snapshot, serve, followerTimer, applyCount, calls, role, currentTerm, lastVote,
                   clusterLeader, log, commitIndex, lastApplied, commitCh, logOpsCh,
                   applied, conf, handlers, everLeader, votesGranted, panicked, loop, election, repl>>

\* Servers that take InstallSnapshot requests and requests of an unknown
\* type while they run their elections.
NextRPC ==
    \/ \E s \in Server : runLoopFollower(s)
    \/ \E s \in Server : followerTimeout(s)
    \/ \E s \in Server : startElection(s, MaxTerm)
    \/ \E s \in Server : electionTimeout(s)
    \/ \E p \in Server : \E kind \in {"InstallSnapshot", "Unknown"} :
          dispatchRPC(p, kind)
    \/ \E r \in rpcs : handleRPC(r)
    \/ \E r \in rpcs : handleRPCResponse(r)
    \/ \E r \in rpcs : streamFailed(r)
    \/ \E r \in rpcs : streamEOF(r)
    \/ \E r \in rpcs : transResponse(r)

SpecRPC == Init /\ [][NextRPC]_vars

----------------------------------------------------------------------------
\* Membership change

\* A configuration store that starts a transition whatever the state of the
\* latest configuration.
InitiateTransitionUnguarded(s, target) ==
    Append(logOpsCh[s],
           [type |-> "CONFIGURATION",
            data |-> [current |-> confStore[s].committed.current,
                      next |-> target]])

\* confStore.InitiateTransition(target): no transition is started while one is
\* in flight, that is while the latest configuration is joint or is not the
\* committed one.  Otherwise the joint configuration (current = the committed
\* current set, next = target) is built and an append of it is queued.
InitiateTransition(s, target) ==
    IF \/ Joint(conf[s])
       \/ conf[s] # confStore[s].committed
    THEN logOpsCh[s]
    ELSE Append(logOpsCh[s],
                [type |-> "CONFIGURATION",
                 data |-> [current |-> confStore[s].committed.current,
                           next |-> target]])

\* Server.Register(peer): the target is the current set of the latest
\* configuration with the peer added.  With track, what the call returned is
\* recorded.
Register(s, peer, track) ==
    /\ Settled /\ ~panicked[s]
    /\ peer \notin conf[s].current
    /\ Len(logOpsCh[s]) < MaxLogOps
    /\ logOpsCh' = [logOpsCh EXCEPT ![s] =
           InitiateTransition(s, conf[s].current \cup {peer})]
    /\ registerResult' =
          IF track
          THEN [registerResult EXCEPT ![s] =
                   IF logOpsCh'[s] = logOpsCh[s] THEN "InTransition" ELSE "Queued"]
          ELSE registerResult
    /\ UNCHANGED <<listedEndpoint, serveFlag, transOps, clientsMu, clients, flagReselectLoop, confStore, snapshot, rpcs, serve, followerTimer,
                   applyCount, calls, role, currentTerm, lastVote, clusterLeader,
                   log, commitIndex, lastApplied, commitCh, applied, conf, loop,
                   panicked, handlers, election, repl, everLeader, votesGranted>>

\* A fresh server joins a cluster: every server has bootstrapped itself as a
\* first node; the clients and the operator call the servers of Existing,
\* where the other servers get registered.
Existing == {"A"}

NextJoin ==
    \/ \E s \in Server : runLoopFollower(s)
    \/ \E s \in Server : followerTimeout(s)
    \/ \E s \in Server : startElection(s, MaxTerm)
    \/ \E c \in Server, p \in Server : SendRequestVote(c, p, MaxInFlight)
    \/ \E s \in Server : \E h \in handlers[s] : RequestVoteCheck(s, h)
    \/ \E s \in Server : \E h \in handlers[s] : RequestVoteAct(s, h)
    \/ \E s \in Server : \E r \in election[s].resCh : voteResponse(s, r)
    \/ \E s \in Server : runLoopLeader(s)
    \/ \E s \in Existing : Apply(s, FALSE)
    \/ \E s \in Existing, peer \in Server : Register(s, peer, FALSE)
    \/ \E s \in Server : logOpsEvent(s)
    \/ \E l \in Server, p \in Server : ReplSend(l, p, MaxInFlight)
    \/ \E s \in Server : \E h \in handlers[s] : AppendEntriesCheck(s, h)
    \/ \E s \in Server : \E h \in handlers[s] : AppendEntriesAct(s, h)
    \/ \E s \in Server : \E h \in handlers[s] : AppendEntriesCommit(s, h)
    \/ \E l \in Server, p \in Server : ReplRecv(l, p)
    \/ \E s \in Server : stepdownEvent(s)
    \/ \E l \in Server : AdvanceCommit(l)
    \/ \E s \in Server : commitEvent(s)

SpecJoin == InitBootstrap /\ [][NextJoin]_vars

\* First nodes and their operators: peers are registered at any server, at
\* any time, and no registered peer ever answers.
NextRegister ==
    \/ NextAlone
    \/ \E s \in Server, peer \in Server : Register(s, peer, TRUE)

SpecRegister == InitBootstrap /\ [][NextRegister]_vars

----------------------------------------------------------------------------
\* Snapshot restore

\* The role loops, case t := <-s.snapshotRestoreCh: snapshotService.Restore.
\* The restore replaces the log with one whose first index is the index of
\* the snapshot plus one, and sets commit index and last applied to the
\* index of the snapshot.  The leader loop stops the replication scheduler
\* before it restores.
snapshotRestoreEvent(s) ==
    /\ Selecting(s) /\ loop[s] \in Loops
    /\ snapshot[s].restoreCh # <<>>
    /\ LET t == Head(snapshot[s].restoreCh)
           exit == Exits(s, role[s], FALSE) IN
       /\ snapshot' = [snapshot EXCEPT ![s] =
              [restoreCh |-> Tail(snapshot[s].restoreCh),
               index |-> t.index, term |-> t.term]]
       /\ log' = [log EXCEPT ![s] = <<>>]
       /\ commitIndex' = [commitIndex EXCEPT ![s] = t.index]
       /\ lastApplied' = [lastApplied EXCEPT ![s] =
              [index |-> t.index, term |-> t.term]]
       /\ repl' = IF loop[s] = Leader THEN [repl EXCEPT ![s] = InitRepl] ELSE repl
       /\ loop' = loopAfter(s, exit)
       /\ election' = electionAfter(s, exit)
    /\ UNCHANGED <<listedEndpoint, serveFlag, transOps, clientsMu, clients, registerResult, flagReselectLoop, confStore, rpcs, serve, followerTimer, applyCount, calls, role, currentTerm,
                   lastVote, clusterLeader, commitCh, logOpsCh, applied, conf,
                   panicked, handlers, everLeader, votesGranted>>

\* A restore of the newest snapshot of the server, the one captured at its
\* last applied entry, is requested: the task is sent to snapshotRestoreCh.
snapshotRestoreRequest(s) ==
    /\ ~panicked[s]
    /\ lastApplied[s].index > 0
    /\ Len(snapshot[s].restoreCh) < MaxRestores
    /\ snapshot' = [snapshot EXCEPT ![s].restoreCh =
           Append(@, [index |-> lastApplied[s].index,
                      term |-> lastApplied[s].term])]
    /\ UNCHANGED <<listedEndpoint, serveFlag, transOps, clientsMu, clients, registerResult, flagReselectLoop, confStore, rpcs, serve, followerTimer, applyCount, calls, role, currentTerm,
                   lastVote, clusterLeader, log, commitIndex, lastApplied, commitCh,
                   logOpsCh, applied, conf, loop, panicked, handlers, election,
                   repl, everLeader, votesGranted>>

\* A leader A that has sent its snapshot of index n to the new follower B:
\* the restore task waits on B, and A's driver for B goes on from n + 1.
InitSnapshot ==
    \E tA \in 1..MaxTerm, tB \in 0..MaxTerm :
    \E lgA \in Logs(tA) \ {<<>>} :
    \E n \in 1..Len(lgA) :
        /\ tB <= tA
        /\ role = [s \in Server |-> IF s = "A" THEN Leader ELSE Follower]
        /\ currentTerm = [s \in Server |-> IF s = "A" THEN tA ELSE tB]
        /\ lastVote = [s \in Server |->
                          IF s = "A" THEN [term |-> tA, candidate |-> s]
                          ELSE [term |-> 0, candidate |-> nilPeer]]
        /\ clusterLeader = [s \in Server |-> IF s = "A" THEN s ELSE nilPeer]
        /\ log = [s \in Server |-> IF s = "A" THEN lgA ELSE <<>>]
        /\ commitIndex = [s \in Server |-> IF s = "A" THEN n ELSE 0]
        /\ lastApplied = [s \in Server |->
              IF s = "A" THEN [index |-> n, term |-> lgA[n].term]
              ELSE [index |-> 0, term |-> 0]]
        /\ commitCh = [s \in Server |-> <<>>]
        /\ logOpsCh = [s \in Server |-> <<>>]
        /\ applied = [s \in Server |->
              IF s = "A" THEN Commands(lgA, 1, n) ELSE <<>>]
        /\ conf = [s \in Server |-> InitConf]
        /\ loop = role
        /\ panicked = [s \in Server |-> FALSE]
        /\ handlers = [s \in Server |-> {}]
        /\ election = [s \in Server |-> InitElection]
        /\ repl = [s \in Server |->
              IF s = "A"
              THEN [running |-> TRUE, stepdownCh |-> <<>>,
                    drv |-> [p \in Server |->
                        [InitDriver EXCEPT !.nextIndex =
                            IF p = "B" THEN n + 1 ELSE Len(lgA) + 1]]]
              ELSE InitRepl]
        /\ everLeader = {[term |-> tA, server |-> "A"]}
        /\ votesGranted = {[voter |-> "A", term |-> tA, candidate |-> "A"]}
        /\ applyCount = 0
        /\ listedEndpoint = [s \in Server |-> Endpoint(s)]
        /\ serveFlag = [s \in Server |-> 1]
        /\ transOps = InitTransOps
        /\ clientsMu = InitClientsMu
        /\ clients = {}
        /\ registerResult = [s \in Server |-> "None"]
        /\ flagReselectLoop = [s \in Server |-> FALSE]
        /\ confStore = [s \in Server |-> InitConfStore]
        /\ snapshot = [s \in Server |->
              IF s = "B"
              THEN [InitSnapshotState EXCEPT
                      !.restoreCh = <<[index |-> n, term |-> lgA[n].term]>>]
              ELSE InitSnapshotState]
        /\ rpcs = {}
        /\ serve = [s \in Server |-> InitServe]
        /\ followerTimer = [s \in Server |-> [period |-> 0, left |-> 0]]
        /\ calls = {}

NextSnapshot ==
    \/ \E s \in Server : snapshotRestoreEvent(s)
    \/ \E l \in Server, p \in Server : ReplSend(l, p, MaxInFlight)
    \/ \E s \in Server : \E h \in handlers[s] : AppendEntriesCheck(s, h)
    \/ \E s \in Server : \E h \in handlers[s] : AppendEntriesAct(s, h)
    \/ \E l \in Server, p \in Server : ReplRecv(l, p)

SpecSnapshot == InitSnapshot /\ [][NextSnapshot]_vars

\* The same cluster when restores of their own snapshots are requested on
\* the servers, the leader among them.
NextRestore ==
    \/ NextSnapshot
    \/ \E s \in Server : snapshotRestoreRequest(s)

SpecRestore == InitSnapshot /\ [][NextRestore]_vars

----------------------------------------------------------------------------
\* Shutdown

\* Server.internalShutdown: the first call sets the shutdown state, closes the
\* transport and sends err to serveErrCh; every later call returns at once.
internalShutdown(s, err) ==
    IF serve[s].shutdownState THEN serve[s]
    ELSE [serve[s] EXCEPT !.shutdownState = TRUE,
                          !.serveErrCh = Append(@, err)]

\* Server.Shutdown(err): the error is sent to shutdownCh.
Shutdown(s, err) ==
    /\ ~panicked[s] /\ Len(serve[s].shutdownCh) < MaxShutdowns
    /\ serve' = [serve EXCEPT ![s].shutdownCh = Append(@, err)]
    /\ UNCHANGED <<listedEndpoint, serveFlag, transOps, clientsMu, clients, registerResult, flagReselectLoop, confStore, snapshot, rpcs, followerTimer, applyCount, calls, role, currentTerm, lastVote, clusterLeader,
                   log, commitIndex, lastApplied, commitCh, logOpsCh, applied, conf,
                   panicked, handlers, everLeader, votesGranted, loop, election, repl>>

\* Server.handleTerminal: the terminal signal sends nil to shutdownCh.
handleTerminal(s) ==
    /\ ~panicked[s] /\ ~serve[s].terminal
    /\ Len(serve[s].shutdownCh) < MaxShutdowns
    /\ serve' = [serve EXCEPT ![s].shutdownCh = Append(@, NoError),
                              ![s].terminal = TRUE]
    /\ UNCHANGED <<listedEndpoint, serveFlag, transOps, clientsMu, clients, registerResult, flagReselectLoop, confStore, snapshot, rpcs, followerTimer, applyCount, calls, role, currentTerm, lastVote, clusterLeader,
                   log, commitIndex, lastApplied, commitCh, logOpsCh, applied, conf,
                   panicked, handlers, everLeader, votesGranted, loop, election, repl>>

\* Serve: the goroutine of trans.Serve() gets an error back and calls
\* internalShutdown itself, while the main loop is in a role loop.
transServeFailed(s) ==
    /\ ~panicked[s] /\ serve[s].trans = "serving"
    /\ serve' = [serve EXCEPT ![s] =
           [internalShutdown(s, "Transport") EXCEPT !.trans = "failed"]]
    /\ UNCHANGED <<listedEndpoint, serveFlag, transOps, clientsMu, clients, registerResult, flagReselectLoop, confStore, snapshot, rpcs, followerTimer, applyCount, calls, role, currentTerm, lastVote, clusterLeader,
                   log, commitIndex, lastApplied, commitCh, logOpsCh, applied, conf,
                   panicked, handlers, everLeader, votesGranted, loop, election, repl>>

\* The role loops, case err := <-s.shutdownCh: internalShutdown(err); return
shutdownEvent(s) ==
    /\ Selecting(s) /\ serve[s].shutdownCh # <<>>
    /\ serve' = [serve EXCEPT ![s] =
           [internalShutdown(s, Head(serve[s].shutdownCh))
              EXCEPT !.shutdownCh = Tail(@)]]
    /\ loop' = loopAfter(s, TRUE)
    /\ repl' = replAfter(s, TRUE)
    /\ election' = electionAfter(s, TRUE)
    /\ UNCHANGED <<listedEndpoint, serveFlag, transOps, clientsMu, clients, registerResult, flagReselectLoop, confStore, snapshot, rpcs, followerTimer, applyCount, calls, role, currentTerm, lastVote, clusterLeader,
                   log, commitIndex, lastApplied, commitCh, logOpsCh, applied, conf,
                   panicked, handlers, everLeader, votesGranted>>

\* Serve: return <-s.serveErrCh
ServeReturn(s) ==
    /\ ~panicked[s] /\ serve[s].returned = <<>> /\ serve[s].serveErrCh # <<>>
    /\ serve' = [serve EXCEPT ![s].returned = <<Head(serve[s].serveErrCh)>>,
                              ![s].serveErrCh = Tail(@)]
    /\ UNCHANGED <<listedEndpoint, serveFlag, transOps, clientsMu, clients, registerResult, flagReselectLoop, confStore, snapshot, rpcs, followerTimer, applyCount, calls, role, currentTerm, lastVote, clusterLeader,
                   log, commitIndex, lastApplied, commitCh, logOpsCh, applied, conf,
                   panicked, handlers, everLeader, votesGranted, loop, election, repl>>

\* First nodes that are shut down: by their application, by a terminal
\* signal and by the failure of their transport.
NextShutdown ==
    \/ \E s \in Server : runLoopFollower(s)
    \/ \E s \in Server : followerTimeout(s)
    \/ \E s \in Server : startElection(s, MaxTerm)
    \/ \E s \in Server : \E r \in election[s].resCh : voteResponse(s, r)
    \/ \E s \in Server : runLoopLeader(s)
    \/ \E s \in Server : Shutdown(s, "Shutdown")
    \/ \E s \in Server : handleTerminal(s)
    \/ \E s \in Server : transServeFailed(s)
    \/ \E s \in Server : shutdownEvent(s)
    \/ \E s \in Server : ServeReturn(s)

SpecShutdown == InitBootstrap /\ [][NextShutdown]_vars

\* Elections with the clock of the follower timers: every server runs with a
\* follower timeout of FollowerTicks ticks.
InitTimer ==
    /\ role = [s \in Server |-> Follower]
    /\ currentTerm = [s \in Server |-> 0]
    /\ lastVote = [s \in Server |-> [term |-> 0, candidate |-> nilPeer]]
    /\ clusterLeader = [s \in Server |-> nilPeer]
    /\ log = [s \in Server |-> <<>>]
    /\ commitIndex = [s \in Server |-> 0]
    /\ lastApplied = [s \in Server |-> [index |-> 0, term |-> 0]]
    /\ commitCh = [s \in Server |-> <<>>]
    /\ logOpsCh = [s \in Server |-> <<>>]
    /\ applied = [s \in Server |-> <<>>]
    /\ conf = [s \in Server |-> InitConf]
    /\ loop = [s \in Server |-> "main"]
    /\ panicked = [s \in Server |-> FALSE]
    /\ handlers = [s \in Server |-> {}]
    /\ election = [s \in Server |-> InitElection]
    /\ repl = [s \in Server |-> InitRepl]
    /\ everLeader = {}
    /\ votesGranted = {}
    /\ applyCount = 0
    /\ listedEndpoint = [s \in Server |-> Endpoint(s)]
    /\ serveFlag = [s \in Server |-> 1]
    /\ transOps = InitTransOps
    /\ clientsMu = InitClientsMu
    /\ clients = {}
    /\ registerResult = [s \in Server |-> "None"]
    /\ flagReselectLoop = [s \in Server |-> FALSE]
    /\ confStore = [s \in Server |-> InitConfStore]
    /\ snapshot = [s \in Server |-> InitSnapshotState]
    /\ rpcs = {}
    /\ serve = [s \in Server |-> InitServe]
    /\ followerTimer = [s \in Server |-> [period |-> FollowerTicks, left |-> 0]]
    /\ calls = {}

NextTimer ==
    \/ \E s \in Server : runLoopFollower(s)
    \/ \E s \in Server : timerTick(s)
    \/ \E s \in Server : followerTimeout(s)
    \/ \E s \in Server : startElection(s, MaxTerm)
    \/ \E s \in Server : electionTimeout(s)
    \/ \E s \in Server : runLoopLeader(s)
    \/ \E c \in Server, p \in Server : SendRequestVote(c, p, MaxInFlight)
    \/ \E s \in Server : \E h \in handlers[s] : RequestVoteCheck(s, h)
    \/ \E s \in Server : \E h \in handlers[s] : RequestVoteAct(s, h)
    \/ \E s \in Server : \E r \in election[s].resCh : voteResponse(s, r)
    \/ \E p \in Server : ApplyLogRequest(p)
    \/ \E c \in calls : ApplyLogCheck(c)
    \/ \E c \in calls : ApplyLogApply(c)

SpecTimer == InitTimer /\ [][NextTimer]_vars

----------------------------------------------------------------------------
\* The client table of GRPCTransport

\* sync.RWMutex: RLock is granted while nobody holds the write lock, Lock
\* while nobody holds the lock at all.
CanRLock == ~clientsMu.writer
CanLock == ~clientsMu.writer /\ clientsMu.readers = 0
RLock == [clientsMu EXCEPT !.readers = @ + 1]
RUnlock == [clientsMu EXCEPT !.readers = @ - 1]
Lock == [clientsMu EXCEPT !.writer = TRUE]
Unlock == [clientsMu EXCEPT !.writer = FALSE]

\* The goroutine g goes to the label pc of its call, or returns from it.
opAt(g, pc) == [transOps EXCEPT !.thr[g].pc = pc]
opReturn(g) == [transOps EXCEPT !.thr[g] = IdleOp]

\* A goroutine calls Connect, Disconnect, DisconnectAll or one of the outbound
\* calls (AppendEntries, RequestVote, InstallSnapshot, ApplyLog: tryClient).
transCall(g, op, peer) ==
    /\ transOps.thr[g].pc = "idle"
    /\ transOps.started < MaxTransportOps
    /\ transOps' = [transOps EXCEPT
           !.started = @ + 1,
           !.thr[g] = [op |-> op, peer |-> peer, pc |-> "start",
                       retryState |-> -1]]
    /\ UNCHANGED <<listedEndpoint, serveFlag, clients, clientsMu>>
    /\ UNCHANGED serverVars

\* GRPCTransport.Connect: takes the read lock.
ConnectRLock(g) ==
    /\ transOps.thr[g].op = "Connect" /\ transOps.thr[g].pc = "start"
    /\ CanRLock
    /\ clientsMu' = RLock
    /\ transOps' = opAt(g, "rlocked")
    /\ UNCHANGED clients
    /\ UNCHANGED serverVars

\* GRPCTransport.Connect: a peer that is connected makes it return at once,
\* the read lock still held; otherwise the read lock is released.
ConnectCheck(g) ==
    /\ transOps.thr[g].op = "Connect" /\ transOps.thr[g].pc = "rlocked"
    /\ IF transOps.thr[g].peer \in clients THEN
           /\ transOps' = opReturn(g)
           /\ UNCHANGED clientsMu
       ELSE
           /\ clientsMu' = RUnlock
           /\ transOps' = opAt(g, "lock")
    /\ UNCHANGED clients
    /\ UNCHANGED serverVars

\* Connect, Disconnect, DisconnectAll and tryClient: t.clientsMu.Lock().
transLock(g) ==
    /\ transOps.thr[g].pc = "lock"
       \/ (transOps.thr[g].pc = "start"
           /\ transOps.thr[g].op \in {"Disconnect", "DisconnectAll"})
    /\ CanLock
    /\ clientsMu' = Lock
    /\ transOps' = opAt(g, "locked")
    /\ UNCHANGED clients
    /\ UNCHANGED serverVars

\* GRPCTransport.connectLocked: nothing to do for a connected peer; otherwise
\* grpc.Dial, which fails (ok = FALSE) or gives the client of the peer.
connectLocked(cl, peer, ok) ==
    IF peer \in cl THEN cl
    ELSE IF ok THEN cl \cup {peer} ELSE cl

\* GRPCTransport.disconnectLocked
disconnectLocked(cl, peer) == cl \ {peer}

\* Connect with the write lock: connectLocked, and the deferred Unlock.
ConnectLocked(g) ==
    /\ transOps.thr[g].op = "Connect" /\ transOps.thr[g].pc = "locked"
    /\ \E ok \in BOOLEAN :
          clients' = connectLocked(clients, transOps.thr[g].peer, ok)
    /\ clientsMu' = Unlock
    /\ transOps' = opReturn(g)
    /\ UNCHANGED serverVars

\* GRPCTransport.Disconnect with the write lock, and the deferred Unlock.
DisconnectLocked(g) ==
    /\ transOps.thr[g].op = "Disconnect" /\ transOps.thr[g].pc = "locked"
    /\ clients' = clients \ {transOps.thr[g].peer}
    /\ clientsMu' = Unlock
    /\ transOps' = opReturn(g)
    /\ UNCHANGED serverVars

\* GRPCTransport.DisconnectAll with the write lock, and the deferred Unlock.
DisconnectAllLocked(g) ==
    /\ transOps.thr[g].op = "DisconnectAll" /\ transOps.thr[g].pc = "locked"
    /\ clients' = {}
    /\ clientsMu' = Unlock
    /\ transOps' = opReturn(g)
    /\ UNCHANGED serverVars

\* tryClient, label retryClient: the second retry returns the last error;
\* otherwise the read lock is taken.
tryClientRetry(g) ==
    /\ transOps.thr[g].op = "tryClient" /\ transOps.thr[g].pc = "start"
    /\ IF transOps.thr[g].retryState > 0 THEN
           /\ transOps' = opReturn(g)
           /\ UNCHANGED clientsMu
       ELSE
           /\ CanRLock
           /\ clientsMu' = RLock
           /\ transOps' = [transOps EXCEPT !.thr[g].retryState = @ + 1,
                                           !.thr[g].pc = "rlocked"]
    /\ UNCHANGED clients
    /\ UNCHANGED serverVars

\* tryClient: reads the client of the peer and releases the read lock.
tryClientRead(g) ==
    /\ transOps.thr[g].op = "tryClient" /\ transOps.thr[g].pc = "rlocked"
    /\ clientsMu' = RUnlock
    /\ transOps' = opAt(g, IF transOps.thr[g].peer \in clients
                           THEN "tryCall" ELSE "lock")
    /\ UNCHANGED clients
    /\ UNCHANGED serverVars

\* tryClient with the write lock, the client was unset: checks again, connects
\* the peer and tries once more, or returns the error of the connection.
tryClientLocked(g) ==
    /\ transOps.thr[g].op = "tryClient" /\ transOps.thr[g].pc = "locked"
    /\ LET peer == transOps.thr[g].peer IN
       IF peer \in clients THEN
           /\ transOps' = opAt(g, "tryCall")
           /\ UNCHANGED clients
       ELSE
           \E ok \in BOOLEAN :
               /\ clients' = connectLocked(clients, peer, ok)
               /\ transOps' = IF ok THEN opAt(g, "start") ELSE opReturn(g)
    /\ clientsMu' = Unlock
    /\ UNCHANGED serverVars

\* tryClient, label tryCall: the call succeeds or fails; rpc.ErrShutdown makes
\* tryClient take the write lock to connect the peer again.
tryCall(g) ==
    /\ transOps.thr[g].op = "tryClient" /\ transOps.thr[g].pc = "tryCall"
    /\ \E err \in {"nil", "ErrShutdown", "other"} :
          transOps' = IF err = "ErrShutdown" THEN opAt(g, "relock")
                      ELSE opReturn(g)
    /\ UNCHANGED <<listedEndpoint, serveFlag, clients, clientsMu>>
    /\ UNCHANGED serverVars

\* tryClient after rpc.ErrShutdown: t.clientsMu.Lock().
tryClientRelock(g) ==
    /\ transOps.thr[g].op = "tryClient" /\ transOps.thr[g].pc = "relock"
    /\ CanLock
    /\ clientsMu' = Lock
    /\ transOps' = opAt(g, "relocked")
    /\ UNCHANGED clients
    /\ UNCHANGED serverVars

\* tryClient after rpc.ErrShutdown, with the write lock: disconnectLocked,
\* connectLocked, Unlock, and back to retryClient or out with the error.
tryClientReconnect(g) ==
    /\ transOps.thr[g].op = "tryClient" /\ transOps.thr[g].pc = "relocked"
    /\ LET peer == transOps.thr[g].peer IN
       \E ok \in BOOLEAN :
           /\ clients' = connectLocked(disconnectLocked(clients, peer), peer, ok)
           /\ transOps' = IF ok THEN opAt(g, "start") ELSE opReturn(g)
    /\ clientsMu' = Unlock
    /\ UNCHANGED serverVars

TransportOp == {"Connect", "Disconnect", "DisconnectAll", "tryClient"}

NextTransport ==
    \/ \E g \in Goroutine, op \in TransportOp, peer \in Server :
          transCall(g, op, peer)
    \/ \E g \in Goroutine : ConnectRLock(g)
    \/ \E g \in Goroutine : ConnectCheck(g)
    \/ \E g \in Goroutine : transLock(g)
    \/ \E g \in Goroutine : ConnectLocked(g)
    \/ \E g \in Goroutine : DisconnectLocked(g)
    \/ \E g \in Goroutine : DisconnectAllLocked(g)
    \/ \E g \in Goroutine : tryClientRetry(g)
    \/ \E g \in Goroutine : tryClientRead(g)
    \/ \E g \in Goroutine : tryClientLocked(g)
    \/ \E g \in Goroutine : tryCall(g)
    \/ \E g \in Goroutine : tryClientRelock(g)
    \/ \E g \in Goroutine : tryClientReconnect(g)

SpecTransport == Init /\ [][NextTransport]_vars

----------------------------------------------------------------------------
\* Client commands submitted to servers that are not the leader

\* The restored cluster with its elections and its replication; the clients
\* call Apply on servers that are not the leader, and the proxy path carries
\* the command to the leader the server knows.
NextForward ==
    \/ \E s \in Server : runLoopFollower(s)
    \/ \E s \in Server : startElection(s, MaxTerm)
    \/ \E s \in Server : runLoopLeader(s)
    \/ \E s \in Server : followerTimeout(s)
    \/ \E c \in Server, p \in Server : SendRequestVote(c, p, MaxInFlight)
    \/ \E s \in Server : \E h \in handlers[s] : RequestVoteCheck(s, h)
    \/ \E s \in Server : \E h \in handlers[s] : RequestVoteAct(s, h)
    \/ \E s \in Server : \E r \in election[s].resCh : voteResponse(s, r)
    \/ \E s \in Server : ApplyProxy(s)
    \/ \E c \in calls : ProxyDelivered(c)
    \/ \E c \in calls : ProxyFailed(c)
    \/ \E c \in calls : ProxyReturn(c)
    \/ \E c \in calls : ApplyLogCheck(c)
    \/ \E c \in calls : ApplyLogApply(c)
    \/ \E s \in Server : logOpsEvent(s)
    \/ \E c \in calls : ApplyReturn(c)
    \/ \E l \in Server, p \in Server : ReplSend(l, p, MaxInFlight)
    \/ \E s \in Server : \E h \in handlers[s] : AppendEntriesCheck(s, h)
    \/ \E s \in Server : \E h \in handlers[s] : AppendEntriesAct(s, h)
    \/ \E l \in Server, p \in Server : ReplRecv(l, p)
    \/ \E s \in Server : stepdownEvent(s)

SpecForward == Init /\ [][NextForward]_vars

----------------------------------------------------------------------------
\* Serve

\* Serve, the loop over c.Peers(): selfRegistered is declared false and no
\* statement of the loop assigns it.
selfRegistered(s, peers) == FALSE

\* Server.Serve, up to the start of the main loop.  A non-empty latest
\* configuration is that of a restored cluster: the server looks for its own
\* id, panics when the endpoint listed for it is not its own, and panics when
\* selfRegistered is false.  An empty one makes the server the first node of
\* a cluster: it appends a configuration entry listing itself.
Serve(s) ==
    /\ serveFlag[s] = 0 /\ ~panicked[s]
    /\ serveFlag' = [serveFlag EXCEPT ![s] = 1]
    /\ LET peers == Peers(conf[s])
           confusing == s \in peers /\ Endpoint(s) # listedEndpoint[s]
           body == [type |-> "CONFIGURATION",
                    data |-> [current |-> {s}, next |-> {}]]
           c == lastConfiguration(log[s], <<body>>)
       IN
       IF peers # {} THEN
           /\ panicked' = [panicked EXCEPT ![s] =
                  confusing \/ ~selfRegistered(s, peers)]
           /\ loop' = [loop EXCEPT ![s] = IF panicked'[s] THEN @ ELSE "main"]
           /\ UNCHANGED <<log, conf, confStore, flagReselectLoop, listedEndpoint>>
       ELSE
           /\ log' = [log EXCEPT ![s] = appendLogs(@, currentTerm[s], <<body>>)]
           /\ conf' = alterConfiguration(s, c)
           /\ confStore' = SetLatest(s, c)
           /\ flagReselectLoop' = [flagReselectLoop EXCEPT ![s] = TRUE]
           /\ listedEndpoint' = [listedEndpoint EXCEPT ![s] = Endpoint(s)]
           /\ loop' = [loop EXCEPT ![s] = "main"]
           /\ UNCHANGED panicked
    /\ UNCHANGED <<transOps, clientsMu, clients, registerResult, snapshot, rpcs,
                   serve, followerTimer, applyCount, calls, role, currentTerm,
                   lastVote, clusterLeader, commitIndex, lastApplied, commitCh,
                   logOpsCh, applied, handlers, election, repl, everLeader,
                   votesGranted>>

\* Servers before Serve is called: each has the latest configuration that its
\* stores hold, empty on a server that was never part of a cluster, and the
\* configuration lists the server, if at all, with its own endpoint or with
\* another one.
InitServeCall ==
    \E cfg \in [Server -> SUBSET Server] :
    \E le \in [Server -> {Endpoint(x) : x \in Server} \cup {OtherEndpoint}] :
        /\ \A s \in Server : le[s] \in {Endpoint(s), OtherEndpoint}
        /\ role = [s \in Server |-> Follower]
        /\ currentTerm = [s \in Server |-> 0]
        /\ lastVote = [s \in Server |-> [term |-> 0, candidate |-> nilPeer]]
        /\ clusterLeader = [s \in Server |-> nilPeer]
        /\ log = [s \in Server |-> <<>>]
        /\ commitIndex = [s \in Server |-> 0]
        /\ lastApplied = [s \in Server |-> [index |-> 0, term |-> 0]]
        /\ commitCh = [s \in Server |-> <<>>]
        /\ logOpsCh = [s \in Server |-> <<>>]
        /\ applied = [s \in Server |-> <<>>]
        /\ conf = [s \in Server |-> [current |-> cfg[s], next |-> {}]]
        /\ loop = [s \in Server |-> "none"]
        /\ panicked = [s \in Server |-> FALSE]
        /\ handlers = [s \in Server |-> {}]
        /\ election = [s \in Server |-> InitElection]
        /\ repl = [s \in Server |-> InitRepl]
        /\ everLeader = {}
        /\ votesGranted = {}
        /\ applyCount = 0
        /\ listedEndpoint = le
        /\ serveFlag = [s \in Server |-> 0]
        /\ transOps = InitTransOps
        /\ clientsMu = InitClientsMu
        /\ clients = {}
        /\ registerResult = [s \in Server |-> "None"]
        /\ flagReselectLoop = [s \in Server |-> FALSE]
        /\ confStore = [s \in Server |->
              [latestIndex |-> 0, committed |-> [current |-> cfg[s], next |-> {}]]]
        /\ snapshot = [s \in Server |-> InitSnapshotState]
        /\ rpcs = {}
        /\ serve = [s \in Server |-> InitServe]
        /\ followerTimer = [s \in Server |-> [period |-> 0, left |-> 0]]
        /\ calls = {}

NextServe ==
    \/ \E s \in Server : Serve(s)
    \/ NextAlone

SpecServe == InitServeCall /\ [][NextServe]_vars

----------------------------------------------------------------------------
\* Repair of a follower's log

\* A leader A of term tA with its scheduler running, and a follower B whose
\* log is whatever earlier terms can have left on it.
InitRepair ==
    \E tA \in 1..MaxTerm, tB \in 0..MaxTerm :
    \E lgA \in Logs(tA) \ {<<>>}, lgB \in Logs(tB) :
        /\ tB <= tA
        /\ role = [s \in Server |-> IF s = "A" THEN Leader ELSE Follower]
        /\ currentTerm = [s \in Server |-> IF s = "A" THEN tA ELSE tB]
        /\ lastVote = [s \in Server |->
                          IF s = "A" THEN [term |-> tA, candidate |-> s]
                          ELSE [term |-> 0, candidate |-> nilPeer]]
        /\ clusterLeader = [s \in Server |-> IF s = "A" THEN s ELSE nilPeer]
        /\ log = [s \in Server |-> IF s = "A" THEN lgA ELSE lgB]
        /\ commitIndex = [s \in Server |-> 0]
        /\ lastApplied = [s \in Server |-> [index |-> 0, term |-> 0]]
        /\ commitCh = [s \in Server |-> <<>>]
        /\ logOpsCh = [s \in Server |-> <<>>]
        /\ applied = [s \in Server |-> <<>>]
        /\ conf = [s \in Server |-> InitConf]
        /\ loop = role
        /\ panicked = [s \in Server |-> FALSE]
        /\ handlers = [s \in Server |-> {}]
        /\ election = [s \in Server |-> InitElection]
        /\ repl = [s \in Server |->
              IF s = "A"
              THEN [running |-> TRUE, stepdownCh |-> <<>>,
                    drv |-> [p \in Server |->
                        [InitDriver EXCEPT !.nextIndex = Len(lgA) + 1]]]
              ELSE InitRepl]
        /\ everLeader = {[term |-> tA, server |-> "A"]}
        /\ votesGranted = {[voter |-> "A", term |-> tA, candidate |-> "A"]}
        /\ applyCount = 0
        /\ listedEndpoint = [s \in Server |-> Endpoint(s)]
        /\ serveFlag = [s \in Server |-> 1]
        /\ transOps = InitTransOps
        /\ clientsMu = InitClientsMu
        /\ clients = {}
        /\ registerResult = [s \in Server |-> "None"]
        /\ flagReselectLoop = [s \in Server |-> FALSE]
        /\ confStore = [s \in Server |-> InitConfStore]
        /\ snapshot = [s \in Server |-> InitSnapshotState]
        /\ rpcs = {}
        /\ serve = [s \in Server |-> InitServe]
        /\ followerTimer = [s \in Server |-> [period |-> 0, left |-> 0]]
        /\ calls = {}

NextRepair ==
    \/ \E l \in Server, p \in Server : ReplSend(l, p, MaxInFlight)
    \/ \E s \in Server : \E h \in handlers[s] : AppendEntriesCheck(s, h)
    \/ \E s \in Server : \E h \in handlers[s] : AppendEntriesAct(s, h)
    \/ \E l \in Server, p \in Server : ReplRecv(l, p)

SpecRepair == InitRepair /\ [][NextRepair]_vars

\* The drivers and the handlers are goroutines of their own: a request that
\* can be sent is sent, a handler that was started runs to its end, and a
\* response that has arrived is read.
FairRepair ==
    /\ \A l \in Server, p \in Server : WF_vars(ReplSend(l, p, MaxInFlight))
    /\ \A s \in Server :
          WF_vars(\E h \in handlers[s] : AppendEntriesCheck(s, h))
    /\ \A s \in Server :
          WF_vars(\E h \in handlers[s] : AppendEntriesAct(s, h))
    /\ \A l \in Server, p \in Server : WF_vars(ReplRecv(l, p))

SpecRepairFair == SpecRepair /\ FairRepair

----------------------------------------------------------------------------
\* Properties

\* C1. Election safety: for every term, at most one server has ever been
\* in role Leader with that current term.
ElectionSafety ==
    \A a \in everLeader, b \in everLeader :
        a.term = b.term => a.server = b.server

\* C2. Vote uniqueness: for every server and every term, the votes the server
\* has granted for that term (granted replies to RequestVote requests carrying
\* the term, and its own vote when it starts an election in the term) all go
\* to one candidate.
VoteUniqueness ==
    \A v \in votesGranted, w \in votesGranted :
        (v.voter = w.voter /\ v.term = w.term) => v.candidate = w.candidate

\* C6. Term monotonicity: no step lowers the current term of a server.
TermMonotonic ==
    [][\A s \in Server : currentTerm'[s] >= currentTerm[s]]_vars

\* Handler h of server s, in this step, replies to or acts on a request
\* whose term it found above the current term of s: it replies from the
\* tests that precede the term update, or it runs the term update.
ObservesHigherTerm(s, h) ==
    /\ h \in handlers[s] /\ h \notin handlers'[s]
    /\ \/ /\ h.pc = "check"
          /\ h.req.term > currentTerm[s]
          /\ \A g \in handlers'[s] : g.req # h.req \/ g.from # h.from
       \/ h.pc = "act" /\ h.higher

\* C7. A server that observes a term above its current term (in a request it
\* handles, in a RequestVote response it takes from the response channel as a
\* candidate, or on the stepdown channel of its leader loop) has adopted that
\* term and is a follower once the event has been processed.
ObservedTermAdopted ==
    [][\A s \in Server :
          /\ \A h \in handlers[s] :
                ObservesHigherTerm(s, h)
                   => (currentTerm'[s] = h.req.term /\ role'[s] = Follower)
          /\ \A r \in election[s].resCh :
                (voteResponse(s, r) /\ r.term > currentTerm[s])
                   => (currentTerm'[s] = r.term /\ role'[s] = Follower)
          /\ (stepdownEvent(s) /\ Head(repl[s].stepdownCh) > currentTerm[s])
                => (currentTerm'[s] = Head(repl[s].stepdownCh)
                    /\ role'[s] = Follower)]_vars

\* The first log is a prefix of the second.
IsPrefix(a, b) == Len(a) <= Len(b) /\ SubSeq(b, 1, Len(a)) = a

\* C3. Log matching: if the logs of two servers both hold an entry of the same
\* index and term, the two logs hold the same entries (term and body) at every
\* index up to that one.
LogMatching ==
    \A a \in Server, b \in Server :
        \A i \in 1..lastLogIndex(log[a]) :
            (/\ HasEntry(log[a], i) /\ HasEntry(log[b], i)
             /\ Entry(log[a], i).term = Entry(log[b], i).term)
            => \A k \in 1..i :
                   /\ HasEntry(log[a], k) /\ HasEntry(log[b], k)
                   /\ Entry(log[a], k) = Entry(log[b], k)

\* C4. Leader append-only: a step that a server begins and ends in role
\* Leader leaves every entry of its log in place; its log only grows.
LeaderAppendOnly ==
    [][\A s \in Server :
          (role[s] = Leader /\ role'[s] = Leader) => IsPrefix(log[s], log'[s])]_vars

\* C5. State machine safety: two commands handed to the state machines for the
\* same log index, on any servers, have the same term and the same data.
StateMachineSafety ==
    \A a \in Server, b \in Server :
        \A i \in 1..Len(applied[a]), j \in 1..Len(applied[b]) :
            applied[a][i].index = applied[b][j].index
            => applied[a][i] = applied[b][j]

\* C8. commitIndex is non-decreasing on every server across every step.
CommitIndexMonotonic ==
    [][\A s \in Server : commitIndex'[s] >= commitIndex[s]]_vars

\* A server has taken a commit notification below its commit index: it
\* stopped in the panic of commitAndApply, its commit index where it was.
LowerNotificationTaken ==
    \E s \in Server :
        /\ panicked[s]
        /\ commitIndex[s] > 0
        /\ lastApplied[s].index = commitIndex[s]

\* C9. On every server 0 <= lastApplied <= commitIndex <= lastLogIndex, and
\* commitAndApply has reached neither of its panics.
CommitStateOrdered ==
    \A s \in Server :
        /\ 0 <= lastApplied[s].index
        /\ lastApplied[s].index <= commitIndex[s]
        /\ commitIndex[s] <= lastLogIndex(log[s])
        /\ ~panicked[s]

\* The servers whose log holds at index k the entry that l holds there.
StoredOn(l, k) ==
    {p \in Server : HasEntry(log[p], k) /\ Entry(log[p], k) = Entry(log[l], k)}

\* C10. A step of a leader that changes its commitIndex moves it up to an
\* index k whose entry is of the leader's current term and is stored on a
\* majority of every active configuration set.
LeaderCommitRule ==
    [][\A s \in Server :
          (role[s] = Leader /\ commitIndex'[s] # commitIndex[s]) =>
              LET k == commitIndex'[s] IN
              /\ k > commitIndex[s]
              /\ HasEntry(log[s], k)
              /\ Entry(log[s], k).term = currentTerm[s]
              /\ Cardinality(StoredOn(s, k) \cap conf[s].current)
                    >= Quorum(conf[s].current)
              /\ Joint(conf[s]) =>
                    Cardinality(StoredOn(s, k) \cap conf[s].next)
                       >= Quorum(conf[s].next)]_vars

\* C11. On every server the commands handed to the state machine are in
\* strictly increasing order of log index, none is above the commit index,
\* and every index up to the commit index has been handed over exactly once.
ApplyInLogOrder ==
    \A s \in Server :
        /\ \A i \in 1..Len(applied[s]), j \in 1..Len(applied[s]) :
               i < j => applied[s][i].index < applied[s][j].index
        /\ \A i \in 1..Len(applied[s]) : applied[s][i].index <= commitIndex[s]
        /\ \A k \in 1..commitIndex[s] :
               Cardinality({i \in 1..Len(applied[s]) : applied[s][i].index = k}) = 1

\* A server has committed and applied two commands.
TwoCommandsApplied ==
    \E s \in Server :
        /\ Len(applied[s]) = 2
        /\ commitIndex[s] = 2
        /\ lastApplied[s].index = 2

\* Handler h of server s is an AppendEntries handler that replies in this step.
AppendEntriesReplies(s, h) ==
    /\ h \in handlers[s] /\ h.kind = "AE"
    /\ \A g \in handlers'[s] : g.req # h.req \/ g.from # h.from

\* The driver that sent the request of handler h of server s still waits for
\* its response.
DriverWaits(s, h) ==
    repl[h.from].running /\ repl[h.from].drv[s].out = h.req

\* C12. AppendEntries with a request term below the current term replies
\* {currentTerm, success = false} and leaves role, current term, vote, leader
\* pointer, log and commit index of the receiver unchanged.
StaleAppendEntriesRejected ==
    [][\A s \in Server : \A h \in handlers[s] :
          (/\ AppendEntriesReplies(s, h)
           /\ h.pc = "check"
           /\ h.req.term < currentTerm[s])
          => /\ role'[s] = role[s]
             /\ currentTerm'[s] = currentTerm[s]
             /\ lastVote'[s] = lastVote[s]
             /\ clusterLeader'[s] = clusterLeader[s]
             /\ log'[s] = log[s]
             /\ commitIndex'[s] = commitIndex[s]
             /\ commitCh'[s] = commitCh[s]
             /\ DriverWaits(s, h) =>
                   /\ repl'[h.from].drv[s].resp.kind = "AEResp"
                   /\ repl'[h.from].drv[s].resp.term = currentTerm[s]
                   /\ repl'[h.from].drv[s].resp.success = FALSE]_vars

\* A driver holds the rejection of a request whose term was below the term
\* of the receiver.
StaleRejectionReceived ==
    \E l \in Server, p \in Server :
        /\ repl[l].running
        /\ repl[l].drv[p].resp # NoResp
        /\ ~repl[l].drv[p].resp.success
        /\ repl[l].drv[p].resp.term > currentTerm[l]
        /\ repl[l].drv[p].resp.term = currentTerm[p]

\* C13. AppendEntries with prevLogIndex > 0 whose previous entry the
\* receiver lacks, or holds with another term, replies success = false and
\* leaves the log and the commit index of the receiver unchanged.
InconsistentAppendEntriesRejected ==
    [][\A s \in Server : \A h \in handlers[s] :
          (/\ AppendEntriesReplies(s, h)
           /\ h.pc = "act"
           /\ h.req.prevLogIndex > 0
           /\ \/ ~HasEntry(log[s], h.req.prevLogIndex)
              \/ Entry(log[s], h.req.prevLogIndex).term # h.req.prevLogTerm)
          => /\ log'[s] = log[s]
             /\ commitIndex'[s] = commitIndex[s]
             /\ commitCh'[s] = commitCh[s]
             /\ DriverWaits(s, h) =>
                   /\ repl'[h.from].drv[s].resp.kind = "AEResp"
                   /\ repl'[h.from].drv[s].resp.success = FALSE]_vars

\* A driver holds the rejection of a request whose previous entry the
\* receiver does not hold with the term of the request.
InconsistencyReported ==
    \E l \in Server, p \in Server :
        /\ repl[l].running
        /\ repl[l].drv[p].resp # NoResp
        /\ ~repl[l].drv[p].resp.success
        /\ repl[l].drv[p].resp.term <= currentTerm[l]
        /\ repl[l].drv[p].nextIndex > 1
        /\ HasEntry(log[l], repl[l].drv[p].nextIndex - 1)
        /\ \/ ~HasEntry(log[p], repl[l].drv[p].nextIndex - 1)
           \/ Entry(log[p], repl[l].drv[p].nextIndex - 1).term
                 # Entry(log[l], repl[l].drv[p].nextIndex - 1).term

\* C14. AppendEntries is idempotent: once a handler of a follower has
\* accepted a request, the same request delivered again to the state it left is
\* accepted again, and finds every entry in place: it truncates nothing and
\* appends nothing.
AppendEntriesIdempotent ==
    [][\A s \in Server : \A h \in handlers[s] :
          (/\ h.kind = "AE" /\ h.pc = "act" /\ h \notin handlers'[s]
           /\ role'[s] = Follower
           /\ ~(/\ h.req.prevLogIndex > 0
                /\ \/ ~HasEntry(log[s], h.req.prevLogIndex)
                   \/ Entry(log[s], h.req.prevLogIndex).term # h.req.prevLogTerm))
          => /\ h.req.term >= currentTerm'[s]
             /\ ~(/\ h.req.prevLogIndex > 0
                  /\ \/ ~HasEntry(log'[s], h.req.prevLogIndex)
                     \/ Entry(log'[s], h.req.prevLogIndex).term # h.req.prevLogTerm)
             /\ FirstUnmatched(h.req.entries, log'[s]) = Len(h.req.entries) + 1
             /\ AppendEntriesLog(log'[s], currentTerm'[s], h.req.entries) = log'[s]]_vars


\* The candidate's log, as the request describes it, is at least as up-to-date
\* as the log lg: a higher last term, or the same last term and an index that
\* is not lower.
UpToDate(req, lg) ==
    LET last == LastTermIndex(lg) IN
    \/ req.lastLogTerm > last.term
    \/ req.lastLogTerm = last.term /\ req.lastLogIndex >= last.index

\* The RequestVote handler h of server s ends in this step with a reply that
\* grants the vote.
VoteGrantedBy(s, h) ==
    /\ h \in handlers[s] /\ h.kind = "RV" /\ h \notin handlers'[s]
    /\ \E r \in election'[h.from].resCh \ election[h.from].resCh :
          r.serverId = s /\ r.granted

\* C15. Every reply that grants a vote, a repeated grant to the candidate
\* already voted for included, goes to a candidate whose log is at least as
\* up-to-date as the log of the voter.
GrantOnlyUpToDate ==
    [][\A s \in Server : \A h \in handlers[s] :
          VoteGrantedBy(s, h) => UpToDate(h.req, log[s])]_vars


\* The servers that have granted candidate s their vote of term t.
GrantedTo(s, t) == {v.voter : v \in {w \in votesGranted :
                                        w.term = t /\ w.candidate = s}}

\* C16. A candidate becomes leader only when servers that granted it their
\* vote of its term (itself included) form a strict majority of the current
\* peer set, and of the next peer set as well when the configuration is
\* joint: responses with granted = false do not count.
LeaderByGrantedMajority ==
    [][\A s \in Server :
          (role[s] = Candidate /\ role'[s] = Leader)
          => LET g == GrantedTo(s, currentTerm[s]) IN
             /\ Cardinality(g \cap conf[s].current) >= Quorum(conf[s].current)
             /\ Joint(conf[s]) =>
                   Cardinality(g \cap conf[s].next) >= Quorum(conf[s].next)]_vars


\* The append task of call c is completed in this step, with the meta m.
Appended(c, m) ==
    /\ c \in calls /\ c.pc = "queued"
    /\ \E d \in calls' : /\ d.id = c.id /\ d.server = c.server /\ d.path = c.path
                         /\ d.pc = "appended" /\ d.err = NoError /\ d.meta = m

\* The future of call c is completed in this step, with the result r.
Completes(c, r) ==
    /\ c \in calls /\ c.done = 0
    /\ \E d \in calls' : /\ d.id = c.id /\ d.server = c.server /\ d.path = c.path
                         /\ d.done > 0 /\ d.result = r

\* The entry of command k is in the log lg under the meta m.
Holds(lg, m, k) ==
    /\ HasEntry(lg, m.index)
    /\ Entry(lg, m.index).term = m.term
    /\ Entry(lg, m.index).body.type = "COMMAND"
    /\ Entry(lg, m.index).body.data = k


\* C17. Apply on a leader returns the index that follows the last log index
\* before the append and the current term of the server, and the entry of the
\* command is in the log under that index and term when the future completes
\* (index 2 on a server whose log holds only its configuration entry).
ApplyReturnsAppendedEntry ==
    [][\A c \in calls : \A m \in {d.meta : d \in calls'} \cup
                                 {d.result.meta : d \in calls'} :
          /\ Appended(c, m) =>
                /\ m.index = lastLogIndex(log[c.server]) + 1
                /\ m.term = currentTerm[c.server]
          /\ (c.path = "leader" /\ Completes(c, [meta |-> m, err |-> NoError])) =>
                /\ m = c.meta
                /\ Holds(log'[c.server], m, c.id)]_vars


\* C18. A server started with an empty log and an empty configuration, whose
\* timers fire and which no RPC reaches, eventually is the leader: its
\* follower timer makes it a candidate, and in term 1 its own vote is the
\* quorum of its one-peer configuration.
FirstNodeBecomesLeader ==
    \A s \in Server : <>(role[s] = Leader /\ currentTerm[s] = 1)

FirstNodeLeads ==
    \E s \in Server :
        /\ role[s] = Leader /\ loop[s] = Leader /\ currentTerm[s] = 1
        /\ conf[s].current = {s} /\ clusterLeader[s] = s
        /\ GrantedTo(s, 1) = {s}


\* C19. The ApplyLog handler of a server that is not the leader replies with
\* a NonLeader error that carries the id of the leader the server knows, and
\* leaves the log of the server as it is.
NonLeaderReplyNamesLeader ==
    [][\A c \in calls :
          (c.path = "rpc" /\ c.pc = "check" /\ c \notin calls'
              /\ role[c.server] # Leader)
          => /\ log'[c.server] = log[c.server]
             /\ \E d \in calls' :
                   /\ d.id = c.id /\ d.server = c.server /\ d.done = 1
                   /\ d.result.err = "NonLeader"
                   /\ "leader" \in DOMAIN d.result
                   /\ d.result.leader = clusterLeader[c.server]]_vars


\* C20. The future a call of Apply returned is completed once and no more, on
\* the leader path and on the proxy path: a call that has ended has completed
\* it exactly once, and after a failed transport call the goroutine of the
\* proxy path does not go on to read the response it did not get.
FutureCompletedOnce ==
    \A c \in calls :
        /\ c.done <= 1
        /\ c.pc = "done" => c.done = 1
        /\ c.pc # "crashed"


\* C21. An append operation submitted through Apply is executed only by a
\* server that is the leader when it executes it: on a server that has
\* stepped down the call ends with a NotLeader error and nothing is appended.
AppendExecutedByLeaderOnly ==
    [][\A c \in calls :
          /\ (\E m \in {d.meta : d \in calls'} : Appended(c, m))
                => role[c.server] = Leader
          /\ (c.pc = "queued" /\ role[c.server] # Leader /\ c \notin calls')
                => /\ log'[c.server] = log[c.server]
                   /\ \E d \in calls' : /\ d.id = c.id /\ d.server = c.server
                                        /\ d.err = "NotLeader"]_vars


\* C26. When a follower has accepted an AppendEntries request, its log holds
\* every entry of the request under the index and the term the entry has in
\* the request, with the body of the request.
AcceptedEntriesKeepTerm ==
    [][\A s \in Server : \A h \in handlers[s] :
          (/\ h.kind = "AE" /\ h.pc = "act" /\ h \notin handlers'[s]
           /\ role'[s] = Follower
           /\ ~PrevLogMismatch(log[s], h.req))
          => \A i \in 1..Len(h.req.entries) :
                LET e == h.req.entries[i] IN
                /\ HasEntry(log'[s], e.index)
                /\ Entry(log'[s], e.index).term = e.term
                /\ Entry(log'[s], e.index).body = e.body]_vars


\* C27. RPC handlers of a server run one at a time: no two RequestVote
\* handlers of one server have both passed the already-voted check while
\* neither has yet recorded its vote.
HandlersSerialised ==
    \A s \in Server : \A g, h \in handlers[s] :
        (/\ g.kind = "RV" /\ h.kind = "RV"
         /\ g.pc = "act" /\ h.pc = "act") => g = h


\* C28. The follower timer is reset only by a legitimate RPC: when the
\* follower loop takes a RequestVote request of a stale term, or an ApplyLog
\* request, the time left on the timer stays as it was.
StaleRPC(p, h) == h.kind = "RV" /\ h.req.term < currentTerm[p]

TimerResetOnlyByLegitimateRPC ==
    [][\A p \in Server :
          (/\ loop[p] = Follower /\ loop'[p] = Follower
           /\ \/ \E h \in handlers'[p] \ handlers[p] : StaleRPC(p, h)
              \/ \E c \in calls' \ calls : c.server = p /\ c.path = "rpc"
                                           /\ c.pc = "check")
          => followerTimer'[p].left = followerTimer[p].left]_vars


\* C24. Shutdown takes effect once: at most one error is ever handed to
\* Serve(), and from the moment the shutdown state is set the main loop of
\* the server services no further event, so that its role and its term stay
\* as they were.
ShutdownTakesEffectOnce ==
    [][\A s \in Server :
          /\ Len(serve'[s].serveErrCh) + Len(serve'[s].returned) <= 1
          /\ serve[s].shutdownState
                => /\ role'[s] = role[s]
                   /\ currentTerm'[s] = currentTerm[s]
                   /\ loop'[s] \in {loop[s], "main"}]_vars


\* C25. Every RPC that was dispatched gets exactly one response: never two,
\* and, once its handler has returned and its stream has ended, not zero.
ExactlyOneResponse ==
    \A r \in rpcs :
        /\ r.responds <= 1
        /\ (r.pc = "returned" /\ r.stream # "open" /\ r.responseCh = <<>>)
              => r.received # <<>>


\* C23. Once a follower has restored a snapshot of index n, its commit index
\* and its last applied index are n, and an AppendEntries request whose
\* previous entry is (n, term of the snapshot) is accepted.
AppendAfterSnapshotAccepted ==
    [][\A s \in Server : \A h \in handlers[s] :
          (/\ AppendEntriesReplies(s, h)
           /\ h.pc = "act"
           /\ snapshot[s].index > 0
           /\ h.req.prevLogIndex = snapshot[s].index
           /\ h.req.prevLogTerm = snapshot[s].term
           /\ DriverWaits(s, h))
          => /\ commitIndex[s] = snapshot[s].index
             /\ lastApplied[s].index = snapshot[s].index
             /\ repl'[h.from].drv[s].resp.kind = "AEResp"
             /\ repl'[h.from].drv[s].resp.success = TRUE]_vars


\* C22. No new configuration transition is started while one is in flight:
\* a call of Register made while the latest configuration is joint, or is not
\* the committed configuration, queues no append of a configuration entry.
ConfigurationOps(q) == Len(SelectSeq(q, LAMBDA b : b.type = "CONFIGURATION"))

FinalEntries(lg, joint) ==
    {k \in 1..Len(lg) :
        /\ lg[k].body.type = "CONFIGURATION"
        /\ lg[k].body.data = [current |-> joint.next, next |-> {}]}

JointCommitAppendsFinal ==
    [][\A s \in Server :
          (/\ Joint(confStore'[s].committed)
           /\ confStore'[s].committed # confStore[s].committed)
          => /\ Cardinality(FinalEntries(log'[s], confStore'[s].committed)) = 1
             /\ ~Joint(conf'[s])
             /\ conf'[s].current = confStore'[s].committed.next
             /\ log'[s] # log[s] => role[s] = Leader]_vars

\* A leader has committed a joint configuration and appended the final one.
FinalConfigurationAppended ==
    \E s \in Server :
        /\ role[s] = Leader
        /\ Joint(confStore[s].committed)
        /\ conf[s] = [current |-> confStore[s].committed.next, next |-> {}]
        /\ Cardinality(FinalEntries(log[s], confStore[s].committed)) = 1

\* C29. While a server is leader it replicates to the union of the current and
\* next peer sets of its latest configuration, minus itself: an AppendEntries
\* request leaves a driver only for a peer of that union, so a server that is
\* not (or no longer) in the latest configuration is not contacted, and a
\* server that a transition adds is.
ReplicationPeers(l) == (conf[l].current \cup conf[l].next) \ {l}

TransportIdle == \A g \in Goroutine : transOps.thr[g].pc = "idle"

ClientsLockReleased ==
    TransportIdle => clientsMu.readers = 0 /\ ~clientsMu.writer

\* C36. A client command is forwarded over the transport at most one hop: the
\* server that receives a proxied ApplyLog request appends the command as
\* leader or answers NonLeader, and does not send the request on to another
\* server.
Forwarded(c) == c.path = "rpc" /\ c.pc \in {"sent", "waiting", "crashed"}

ForwardedAtMostOneHop == \A c \in calls : ~Forwarded(c)

\* C35. On every server the latest configuration is the one encoded in the
\* configuration entry of the highest index that its log holds: when
\* AppendEntries deletes a suffix that holds a configuration entry, the latest
\* configuration goes back to the one before it.
ConfigurationEntries(lg) ==
    {k \in 1..Len(lg) : lg[k].body.type = "CONFIGURATION"}

LastConfigurationEntry(lg) ==
    lg[CHOOSE k \in ConfigurationEntries(lg) :
           \A j \in ConfigurationEntries(lg) : j <= k]

LatestIsLastConfigurationInLog ==
    \A s \in Server :
        ConfigurationEntries(log[s]) # {}
        => /\ conf[s] = LastConfigurationEntry(log[s]).body.data
           /\ confStore[s].latestIndex = LastConfigurationEntry(log[s]).index

\* C34. Every AppendEntries request sent carries a term and a leader id such
\* that this server won the election of that term: a server that has stepped
\* down or has adopted a newer term sends no request stamped with a term in
\* which it was not elected.
Elected(term, s) == [term |-> term, server |-> s] \in everLeader

LeaderKeepsReplicating ==
    [][\A s \in Server :
          (/\ loop[s] = Leader /\ loop'[s] = Leader
           /\ role'[s] = Leader
           /\ ~serve'[s].shutdownState)
          => repl'[s].running]_vars

\* C32. Serve on a server whose latest configuration is not empty and lists
\* the id of the server with its own endpoint raises no fatal error and goes
\* on to run the main loop; Serve is fatal only when the id of the server is
\* missing from the peer list or is listed with another endpoint.
ListedWithOwnEndpoint(s) ==
    s \in Peers(conf[s]) /\ listedEndpoint[s] = Endpoint(s)

ServeRunsRestoredNode ==
    [][\A s \in Server :
          (serveFlag[s] = 0 /\ serveFlag'[s] = 1)
          => /\ ListedWithOwnEndpoint(s)
                   => ~panicked'[s] /\ loop'[s] = "main"
             /\ panicked'[s]
                   => Peers(conf[s]) # {} /\ ~ListedWithOwnEndpoint(s)]_vars

\* C31. Repair of a divergent log: while the leader stays the leader and the
\* messages between it and a follower are delivered, the log of the follower
\* comes to equal the log of the leader entry for entry (index, term, body),
\* and the match index the leader keeps for the follower comes to equal the
\* last log index of the leader.
Repaired(l, p) ==
    /\ log[p] = log[l]
    /\ repl[l].drv[p].matchIndex = lastLogIndex(log[l])

FollowerLogRepaired == <>Repaired("A", "B")

============================================================================
